---- MODULE Spec2Model ----
(***************************************************************************)
(* A state-machine model of folly::AsyncServerSocket                       *)
(* (folly/io/async/AsyncServerSocket.cpp): the listener's accepting        *)
(* discipline, the accept pipeline (handlerReady), round-robin dispatch    *)
(* to inline callbacks and RemoteAcceptor queues, the accept backoff and   *)
(* the RemoteAcceptor life cycle on the consumer loops.                    *)
(*                                                                         *)
(* The primary event loop is single threaded: a public operation, a timer  *)
(* expiry or one iteration of the accept loop is one atomic step, and no   *)
(* other primary-loop step runs while an accept wake is in progress        *)
(* (variable wake).  The consumer loops run concurrently: their steps      *)
(* (RunStart, ConsumeMessage, RunStop) interleave freely with the primary  *)
(* loop, also between two iterations of one accept wake.                   *)
(***************************************************************************)
EXTENDS Integers, Sequences, FiniteSets, TLC

VARIABLES
  accepting_,             \* bool accepting_: the desired state
  sockets_,               \* vector<ServerEventHandler>: <<[id, registered]>>
  callbacks_,             \* vector<CallbackInfo>: <<[callback, eventBase, consumer]>>
  callbackIndex_,         \* uint32_t callbackIndex_: the round-robin cursor
  localCallbackIndex_,    \* int localCallbackIndex_
  napiIdToCallback_,      \* map napi id -> CallbackInfo
  backoffTimeout_,        \* BackoffTimeout*: [alloc, scheduled, expiry]
  acceptRate_,            \* double acceptRate_, as the exact fraction [num, den]
  lastAccepTimestamp_,    \* time of the previous accept
  numDroppedConnections_, \* dropped-count
  config,                 \* acceptRateAdjustSpeed_, queueTimeout_, NAPI id of each loop
  now,                    \* steady clock, in ms
  acceptors,              \* every RemoteAcceptor ever created: <<[callback, eventBase, phase, stop, queue]>>
  conns,                  \* history: what happened to each accepted descriptor
  events,                 \* history: ConnectionEventCallback backoff notifications
  wake,                   \* position of handlerReady: [sock, n]
  lastOp,                 \* history: the last primary-loop step
  ub                      \* the program ran into undefined behaviour

vars == <<accepting_, sockets_, callbacks_, callbackIndex_, localCallbackIndex_,
          napiIdToCallback_, backoffTimeout_, acceptRate_, lastAccepTimestamp_,
          numDroppedConnections_, config, now, acceptors, conns, events, wake,
          lastOp, ub>>

(***************************************************************************)
(* Bounds of the model.                                                    *)
(***************************************************************************)
MaxSockets == 2        \* listening sockets created over a run
MaxCallbacks == 2      \* size of callbacks_
MaxAcceptors == 1      \* RemoteAcceptors created over a run
MaxConns == 1          \* successful accepts over a run
MaxBackoffs == 1       \* EMFILE/ENFILE failures over a run
MaxTicks == 1          \* clock ticks over a run
TickMs == 1000         \* one clock tick
MaxAcceptAtOnce == 2   \* the value given to maxAcceptAtOnce_
MaxLifeRegs == 2        \* registrations of one callback in the lifecycle specification
MaxMsgsInQueue == 1    \* the value given to maxNumMsgsInQueue_
MaxRateCuts == 3       \* consecutive multiplicative cuts of acceptRate_

(***************************************************************************)
(* Program constants.                                                      *)
(***************************************************************************)
timeoutMS == 1000                  \* enterBackoff: const uint32_t timeoutMS
kAcceptRateDecreaseSpeedTenths == 1 \* dispatchSocket: kAcceptRateDecreaseSpeed = 0.1
RandMax == 32767                   \* RAND_MAX
NoNapi == -1                       \* int napiId = -1

Callbacks == {"cbA", "cbB"}
NullEventBase == "null"
PrimaryEventBase == "primary"
EventBases == {PrimaryEventBase, "eb1", "eb2"}
NapiIds == {7}
NoConsumer == 0

NoWake == [sock |-> 0, n |-> 0]
NoTimer == [alloc |-> FALSE, scheduled |-> FALSE, expiry |-> 0]
RateOne == [num |-> 1, den |-> 1]
EmptyMap == [i \in {} |-> 0]

CallbackInfo(cb, eb, a) == [callback |-> cb, eventBase |-> eb, consumer |-> a]

maxAcceptAtOnce_ == MaxAcceptAtOnce
\* Variant: a queue takes one message more than its limit.
maxNumMsgsInQueue_OneMore == config.maxMsgs + 1
maxNumMsgsInQueue_ == config.maxMsgs

(***************************************************************************)
(* EventHandler registration of the listening sockets.                     *)
(***************************************************************************)
registerHandler(h) == [h EXCEPT !.registered = TRUE]
unregisterHandler(h) == [h EXCEPT !.registered = FALSE]

RegisterAll(socks) == [i \in DOMAIN socks |-> registerHandler(socks[i])]
UnregisterAll(socks) == [i \in DOMAIN socks |-> unregisterHandler(socks[i])]

AllRegistered == \A i \in DOMAIN sockets_ : sockets_[i].registered
NoneRegistered == \A i \in DOMAIN sockets_ : ~sockets_[i].registered

TimerArmed == backoffTimeout_.scheduled

Idle == wake = NoWake /\ ~ub

(***************************************************************************)
(* The admission rate (acceptRate_), kept as an exact fraction.            *)
(***************************************************************************)
RateBelowOne(r) == r.num < r.den

RECURSIVE Gcd(_, _)
Gcd(a, b) == IF b = 0 THEN a ELSE Gcd(b, a % b)

\* the fraction num/den in lowest terms
Fraction(num, den) ==
  LET g == Gcd(num, den) IN [num |-> num \div g, den |-> den \div g]

\* acceptRateAdjustSpeed_ is a double: config.speed counts units of
\* 1/SpeedUnit per millisecond
SpeedUnit == 1000

\* Variant: the rate shrinks with the time since the last accept.
RateRecover_Shrinks(r, speed, dt) ==
  Fraction(r.num * SpeedUnit, r.den * (SpeedUnit + speed * dt))
\* acceptRate_ *= 1 + acceptRateAdjustSpeed_ * timeSinceLastAccept;
\* if (acceptRate_ >= 1) acceptRate_ = 1;
RateRecover(r, speed, dt) ==
  LET n == r.num * (SpeedUnit + speed * dt)
      d == r.den * SpeedUnit
  IN  IF n >= d THEN RateOne ELSE Fraction(n, d)

\* Variant: the factor is 1 + kAcceptRateDecreaseSpeed.
RateCut_Grows(r) ==
  Fraction(r.num * (10 + kAcceptRateDecreaseSpeedTenths), r.den * 10)
\* acceptRate_ *= 1 - kAcceptRateDecreaseSpeed;
RateCut(r) ==
  Fraction(r.num * (10 - kAcceptRateDecreaseSpeedTenths), r.den * 10)

\* rand() > acceptRate_ * RAND_MAX
RandRejects(rnd, r) == rnd * r.den > r.num * RandMax

RECURSIVE Pow10(_)
Pow10(k) == IF k = 0 THEN 1 ELSE 10 * Pow10(k - 1)

\* The rate update at the top of each accept iteration: the new rate and
\* whether this iteration is rejected.
RateStep(rnd) ==
  LET dt == IF now - lastAccepTimestamp_ > 0 THEN now - lastAccepTimestamp_ ELSE 0
  IN  IF RateBelowOne(acceptRate_)
        THEN LET r1 == RateRecover(acceptRate_, config.speed, dt)
             IN  IF ~RateBelowOne(r1)
                   THEN [rate |-> r1, reject |-> FALSE]
                   ELSE [rate |-> r1, reject |-> RandRejects(rnd, r1)]
        ELSE [rate |-> acceptRate_, reject |-> FALSE]

(***************************************************************************)
(* NotificationQueue::tryPutMessage(msg, maxSize).                         *)
(***************************************************************************)
tryPutMessage(queue, maxSize) == Len(queue) < maxSize

ConsumerAlive(accs, a) == a \in DOMAIN accs /\ accs[a].phase # "deleted"

\* after: how many connections had been accepted when the message was made
NewConnMessage(fd, deadline, timeBeforeEnqueue) ==
  [type |-> "conn", fd |-> fd, deadline |-> deadline,
   timeBeforeEnqueue |-> timeBeforeEnqueue, after |-> fd - 1]
ErrorMessage ==
  [type |-> "error", fd |-> 0, deadline |-> 0, timeBeforeEnqueue |-> 0,
   after |-> Len(conns)]

\* Variant: the message is put in front of the waiting ones.
Enqueue_AtFront(queue, msg) == <<msg>> \o queue
\* info->consumer->getQueue().tryPutMessage(std::move(msg), ...), when it succeeds
Enqueue(queue, msg) == Append(queue, msg)

\* NewConnMessage::isExpired()
isExpired(msg, t) == msg.deadline # 0 /\ t > msg.deadline

(***************************************************************************)
(* nextCallback(socket): the NAPI short-circuit, then the round-robin      *)
(* cursor.  Returns the chosen CallbackInfo, the cursor afterwards, and    *)
(* ub when the lookup reads past the end of callbacks_.                    *)
(***************************************************************************)
RoundRobin(cbs, idx) ==
  IF idx >= Len(cbs)
    THEN [ub |-> TRUE, info |-> CallbackInfo("none", NullEventBase, NoConsumer),
          index |-> idx, slot |-> -1]
    ELSE [ub |-> FALSE, info |-> cbs[idx + 1],
          index |-> IF idx + 1 >= Len(cbs) THEN 0 ELSE idx + 1, slot |-> idx]

nextCallback(cbs, idx, hasSocket, sockNapi) ==
  IF hasSocket /\ DOMAIN napiIdToCallback_ # {} /\ sockNapi # NoNapi
    THEN IF sockNapi \in DOMAIN napiIdToCallback_
           THEN [ub |-> FALSE, info |-> napiIdToCallback_[sockNapi],
                 index |-> idx, slot |-> -1]
           ELSE IF localCallbackIndex_ >= 0
                  THEN IF localCallbackIndex_ >= Len(cbs)
                         THEN [ub |-> TRUE,
                               info |-> CallbackInfo("none", NullEventBase, NoConsumer),
                               index |-> idx, slot |-> -1]
                         ELSE [ub |-> FALSE, info |-> cbs[localCallbackIndex_ + 1],
                               index |-> idx, slot |-> localCallbackIndex_]
                  ELSE RoundRobin(cbs, idx)
    ELSE RoundRobin(cbs, idx)

IsInline(info) ==
  info.eventBase = NullEventBase \/ info.eventBase = PrimaryEventBase

(***************************************************************************)
(* dispatchSocket(socket, address).  The result holds the new cursor, the  *)
(* acceptor queues, the rate, the dropped-count increment and what became  *)
(* of the descriptor: inl (inline connectionAccepted), enq (enqueued),     *)
(* closed (closeNoInt), each a count.                                      *)
(***************************************************************************)
DispatchResult(isUb, idx, accs, rate, dropped, inl, enq, closed, target, tried, cb, slot) ==
  [ub |-> isUb, index |-> idx, acceptors |-> accs, rate |-> rate,
   dropped |-> dropped, inl |-> inl, enq |-> enq, closed |-> closed,
   target |-> target, tried |-> tried, inlineCb |-> cb, slot |-> slot]

\* The "loop until we find a free queue" of dispatchSocket.
RECURSIVE PutLoop(_, _, _, _, _, _, _, _, _)
PutLoop(info, slot, idx, accs, rate, tried, startingIndex, msg, sockNapi) ==
  IF ~ConsumerAlive(accs, info.consumer)
    THEN \* info->consumer is null or was deleted
         DispatchResult(TRUE, idx, accs, rate, 0, 0, 0, 0, 0, tried, "none", slot)
    ELSE IF tryPutMessage(accs[info.consumer].queue, maxNumMsgsInQueue_)
      THEN DispatchResult(FALSE, idx,
             [accs EXCEPT ![info.consumer].queue = Enqueue(@, msg)],
             rate, 0, 0, 1, 0, info.consumer, tried, "none", slot)
      ELSE LET rate1 == IF config.speed > 0 THEN RateCut(rate) ELSE rate
           IN  IF idx = startingIndex
                 THEN DispatchResult(FALSE, idx, accs, rate1, 1, 0, 0, 1, 0, tried, "none", slot)
                 ELSE LET nc == nextCallback(callbacks_, idx, TRUE, sockNapi)
                      IN  IF nc.ub
                            THEN DispatchResult(TRUE, idx, accs, rate1, 0, 0, 0, 0, 0, tried, "none", slot)
                            ELSE PutLoop(nc.info, nc.slot, nc.index, accs, rate1, tried + 1,
                                         startingIndex, msg, sockNapi)

\* Variant: the entry is fetched twice before the first attempt, so every
\* dispatch skips one entry.
dispatchSocket_SkipsEntry(fd, sockNapi, rate) ==
  LET startingIndex == callbackIndex_
      nc0 == nextCallback(callbacks_, callbackIndex_, TRUE, sockNapi)
      nc == nextCallback(callbacks_, nc0.index, TRUE, sockNapi)
      msg == NewConnMessage(fd, 0, now)
  IN  IF nc0.ub \/ nc.ub
        THEN DispatchResult(TRUE, callbackIndex_, acceptors, rate, 0, 0, 0, 0, 0, 0, "none", -1)
        ELSE IF IsInline(nc.info)
          THEN DispatchResult(FALSE, nc.index, acceptors, rate, 0, 1, 0, 0, 0, 1,
                              nc.info.callback, nc.slot)
          ELSE PutLoop(nc.info, nc.slot, nc.index, acceptors, rate, 1, startingIndex,
                       msg, sockNapi)
dispatchSocket(fd, sockNapi, rate) ==
  LET startingIndex == callbackIndex_
      timeBeforeEnqueue == now
      nc == nextCallback(callbacks_, callbackIndex_, TRUE, sockNapi)
      deadline == IF config.queueTimeout # 0
                    THEN timeBeforeEnqueue + config.queueTimeout ELSE 0
      msg == NewConnMessage(fd, deadline, timeBeforeEnqueue)
  IN  IF nc.ub
        THEN DispatchResult(TRUE, callbackIndex_, acceptors, rate, 0, 0, 0, 0, 0, 0, "none", -1)
        ELSE IF IsInline(nc.info)
          THEN DispatchResult(FALSE, nc.index, acceptors, rate, 0, 1, 0, 0, 0, 1,
                              nc.info.callback, nc.slot)
          ELSE PutLoop(nc.info, nc.slot, nc.index, acceptors, rate, 1, startingIndex,
                       msg, sockNapi)

(***************************************************************************)
(* dispatchError(msgstr, errnoValue): same round robin, without the NAPI   *)
(* short-circuit; the inline test is made for every entry visited.         *)
(***************************************************************************)
ErrorResult(isUb, idx, accs, inl, enq, tried) ==
  [ub |-> isUb, index |-> idx, acceptors |-> accs, inl |-> inl, enq |-> enq,
   tried |-> tried]

RECURSIVE ErrorLoop(_, _, _, _, _)
ErrorLoop(info, idx, accs, tried, startingIndex) ==
  IF IsInline(info)
    THEN ErrorResult(FALSE, idx, accs, 1, 0, tried)
    ELSE IF ~ConsumerAlive(accs, info.consumer)
      THEN ErrorResult(TRUE, idx, accs, 0, 0, tried)
      ELSE IF tryPutMessage(accs[info.consumer].queue, maxNumMsgsInQueue_)
        THEN ErrorResult(FALSE, idx,
               [accs EXCEPT ![info.consumer].queue = Enqueue(@, ErrorMessage)],
               0, 1, tried)
        ELSE IF idx = startingIndex
          THEN ErrorResult(FALSE, idx, accs, 0, 0, tried)
          ELSE LET nc == nextCallback(callbacks_, idx, FALSE, NoNapi)
               IN  IF nc.ub
                     THEN ErrorResult(TRUE, idx, accs, 0, 0, tried)
                     ELSE ErrorLoop(nc.info, nc.index, accs, tried + 1, startingIndex)

\* the callback an inline acceptError went to: the entry the cursor has
\* just passed
ErrorTarget(e) ==
  callbacks_[((e.index + Len(callbacks_) - 1) % Len(callbacks_)) + 1].callback

\* Variant: only the entry at the cursor is tried.
dispatchError_FirstOnly ==
  LET nc == nextCallback(callbacks_, callbackIndex_, FALSE, NoNapi)
  IN  IF nc.ub
        THEN ErrorResult(TRUE, callbackIndex_, acceptors, 0, 0, 0)
        ELSE ErrorLoop(nc.info, nc.index, acceptors, 1, nc.index)
dispatchError ==
  LET nc == nextCallback(callbacks_, callbackIndex_, FALSE, NoNapi)
  IN  IF nc.ub
        THEN ErrorResult(TRUE, callbackIndex_, acceptors, 0, 0, 0)
        ELSE ErrorLoop(nc.info, nc.index, acceptors, 1, callbackIndex_)

(***************************************************************************)
(* Initial state: AsyncServerSocket::AsyncServerSocket(eventBase), with    *)
(* the configuration (rate adjust speed, queue timeout, the NAPI id each   *)
(* EventBase reports) fixed before the first operation.                    *)
(***************************************************************************)
ConnRecord(start, d, t) ==
  [start |-> start, slot |-> d.slot, target |-> d.target, tried |-> d.tried,
   inl |-> d.inl, enq |-> d.enq, closed |-> d.closed, dlv |-> 0, exp |-> 0,
   t |-> t, reported |-> 0, waited |-> 0]

\* backoffStarted, backoffEnded, backoffError count the notifications;
\* startedAt is the time of the last onBackoffStarted; acceptError tells
\* whether dispatchError has run, and lastError what its last run did: the
\* number of entries it visited, and whether it called acceptError inline
\* or enqueued an ErrorMessage.
\* life: for each callback, how often it was registered (regs) and asked to
\* stop (ends), how often acceptStarted and acceptStopped were invoked on it,
\* and whether connectionAccepted or acceptError was invoked on it before any
\* acceptStarted (early) or after the acceptStopped of every registration
\* (late).
NoLife ==
  [cb \in Callbacks |->
     [regs |-> 0, ends |-> 0, started |-> 0, stopped |-> 0,
      early |-> FALSE, late |-> FALSE]]

\* bind: the last bind operation: which call (op) with which port on which
\* address families, the descriptors it created (opened) and closed, the
\* handlers the listener had before it, how many attempts it made and
\* whether it threw; ops counts the calls and nextFd is the next unused
\* descriptor.
NoBind ==
  [op |-> "none", port |-> 0, families |-> {}, opened |-> {}, closed |-> {},
   before |-> <<>>, tries |-> 0, error |-> FALSE, ops |-> 0, nextFd |-> 1]

NoEvents ==
  [backoffStarted |-> 0, backoffEnded |-> 0, backoffError |-> 0, startedAt |-> 0,
   acceptError |-> FALSE, lastClosed |-> <<>>, lastStopped |-> <<>>,
   life |-> NoLife, bind |-> NoBind,
   lastError |-> [inl |-> 0, enq |-> 0, tried |-> 0]]

Logged(ev, life) == IF config.life THEN [ev EXCEPT !.life = life] ELSE ev

\* addAcceptCallback appended an entry for cb
LifeRegistered(life, cb) == [life EXCEPT ![cb].regs = @ + 1]
\* callback->acceptStarted()
LifeStarted(life, cb) == [life EXCEPT ![cb].started = @ + 1]
\* removeAcceptCallback or stopAccepting took an entry of cb out of the table
LifeEnded(life, cb) == [life EXCEPT ![cb].ends = @ + 1]
\* callback->acceptStopped()
LifeStopped(life, cb) == [life EXCEPT ![cb].stopped = @ + 1]
\* callback->connectionAccepted(...) or callback->acceptError(...)
LifeDelivered(life, cb) ==
  [life EXCEPT
     ![cb].early = @ \/ life[cb].started = 0,
     ![cb].late = @ \/ (life[cb].regs > 0 /\ life[cb].stopped = life[cb].regs)]

\* the loop over callbacksCopy in stopAccepting, and the single entry of
\* removeAcceptCallback: an entry without consumer is told inline
RECURSIVE LifeStopAll(_, _)
LifeStopAll(life, cbs) ==
  IF cbs = <<>> THEN life
  ELSE LET info == Head(cbs)
           l1 == LifeEnded(life, info.callback)
           l2 == IF info.consumer = NoConsumer
                   THEN LifeStopped(l1, info.callback) ELSE l1
       IN  LifeStopAll(l2, Tail(cbs))

InitWith(cfg) ==
  /\ accepting_ = FALSE
  /\ sockets_ = <<>>
  /\ callbacks_ = <<>>
  /\ callbackIndex_ = 0
  /\ localCallbackIndex_ = -1
  /\ napiIdToCallback_ = EmptyMap
  /\ backoffTimeout_ = NoTimer
  /\ acceptRate_ = RateOne
  /\ lastAccepTimestamp_ = 0
  /\ numDroppedConnections_ = 0
  /\ config = cfg
  /\ now = 0
  /\ acceptors = <<>>
  /\ conns = <<>>
  /\ events = NoEvents
  /\ wake = NoWake
  /\ lastOp = "init"
  /\ ub = FALSE

NoNapiIds == [e \in EventBases |-> NoNapi]
SharedNapiIds == [e \in EventBases |-> IF e = PrimaryEventBase THEN NoNapi ELSE 7]

PlainConfig ==
  [speed |-> 0, queueTimeout |-> 0, napi |-> NoNapiIds,
   maxSockets |-> MaxSockets, maxAcceptors |-> MaxAcceptors,
   maxConns |-> MaxConns, maxBackoffs |-> MaxBackoffs, maxTicks |-> MaxTicks,
   maxMsgs |-> MaxMsgsInQueue, history |-> FALSE, life |-> FALSE,
   adds |-> {<<"cbA", NullEventBase>>, <<"cbB", "eb1">>}]

Init == InitWith(PlainConfig)

(***************************************************************************)
(* Creating the listening sockets.                                         *)
(***************************************************************************)
NewSockets(k) ==
  [i \in 1..k |-> [id |-> Len(sockets_) + i, registered |-> FALSE]]

\* useExistingSockets(fds): rejected when the listener already has a socket.
useExistingSockets(k) ==
  /\ Idle
  /\ sockets_ = <<>>
  /\ Len(sockets_) + k <= config.maxSockets
  /\ sockets_' = NewSockets(k)
  /\ lastOp' = "useExistingSockets"
  /\ UNCHANGED <<accepting_, callbacks_, callbackIndex_, localCallbackIndex_,
                 napiIdToCallback_, backoffTimeout_, acceptRate_,
                 lastAccepTimestamp_, numDroppedConnections_, config, now,
                 acceptors, conns, events, wake, ub>>

\* bind(ipAddresses, port): one new socket per address, appended to sockets_.
bind(k) ==
  /\ Idle
  /\ Len(sockets_) + k <= config.maxSockets
  /\ sockets_' = sockets_ \o NewSockets(k)
  /\ lastOp' = "bind"
  /\ UNCHANGED <<accepting_, callbacks_, callbackIndex_, localCallbackIndex_,
                 napiIdToCallback_, backoffTimeout_, acceptRate_,
                 lastAccepTimestamp_, numDroppedConnections_, config, now,
                 acceptors, conns, events, wake, ub>>

(***************************************************************************)
(* startAccepting / pauseAccepting / stopAccepting.                        *)
(***************************************************************************)
\* Variant: the sockets are registered although no callback is there.
startAccepting_AlwaysRegisters ==
  /\ Idle
  /\ accepting_' = TRUE
  /\ sockets_' = RegisterAll(sockets_)
  /\ lastOp' = "startAccepting"
  /\ UNCHANGED <<callbacks_, callbackIndex_, localCallbackIndex_,
                 napiIdToCallback_, backoffTimeout_, acceptRate_,
                 lastAccepTimestamp_, numDroppedConnections_, config, now,
                 acceptors, conns, events, wake, ub>>
startAccepting ==
  /\ Idle
  /\ accepting_' = TRUE
  /\ sockets_' = IF callbacks_ = <<>> THEN sockets_ ELSE RegisterAll(sockets_)
  /\ lastOp' = "startAccepting"
  /\ UNCHANGED <<callbacks_, callbackIndex_, localCallbackIndex_,
                 napiIdToCallback_, backoffTimeout_, acceptRate_,
                 lastAccepTimestamp_, numDroppedConnections_, config, now,
                 acceptors, conns, events, wake, ub>>

\* Variant: the pending timeout is left scheduled.
cancelTimeout_KeepsScheduled(timer) == timer
\* backoffTimeout_->cancelTimeout(), when backoffTimeout_ is not null
cancelTimeout(timer) == [timer EXCEPT !.scheduled = FALSE]

pauseAccepting ==
  /\ Idle
  /\ accepting_' = FALSE
  /\ sockets_' = UnregisterAll(sockets_)
  /\ backoffTimeout_' = cancelTimeout(backoffTimeout_)
  /\ lastOp' = "pauseAccepting"
  /\ UNCHANGED <<callbacks_, callbackIndex_, localCallbackIndex_,
                 napiIdToCallback_, acceptRate_, lastAccepTimestamp_,
                 numDroppedConnections_, config, now, acceptors, conns, events,
                 wake, ub>>

\* RemoteAcceptor::stop for every entry of cbs that has a consumer
StopConsumers(accs, cbs) ==
  [a \in DOMAIN accs |->
     IF \E i \in DOMAIN cbs : cbs[i].consumer = a
       THEN [accs[a] EXCEPT !.stop = TRUE] ELSE accs[a]]

\* Variant: the sockets are closed in the order they were opened.
CloseOrder_Forward(socks) == [i \in 1..Len(socks) |-> socks[i].id]
\* for (; !sockets_.empty(); sockets_.pop_back()): the ids of the sockets in
\* the order they are unregistered and closed
CloseOrder(socks) == [i \in 1..Len(socks) |-> socks[Len(socks) + 1 - i].id]

\* Variant: the callbacks are told while the table still holds them.
StopCalls_SeeTable(cbs, table) ==
  [i \in 1..Len(cbs) |->
     [callback |-> cbs[i].callback, inline |-> cbs[i].consumer = NoConsumer,
      table |-> Len(cbs)]]
\* the loop over callbacksCopy: consumer->stop(eventBase, callback) or
\* callback->acceptStopped(), in table order; table is callbacks_ as the
\* call finds it
StopCalls(cbs, table) ==
  [i \in 1..Len(cbs) |->
     [callback |-> cbs[i].callback, inline |-> cbs[i].consumer = NoConsumer,
      table |-> Len(table)]]

StopOps == {"stopAccepting", "stopAcceptingAgain"}

\* Variant: callbacksCopy is a copy and callbacks_ keeps its entries.
stopAccepting_KeepsTable ==
  /\ Idle
  /\ accepting_' = FALSE
  /\ sockets_' = <<>>
  /\ backoffTimeout_' = NoTimer
  /\ acceptors' = StopConsumers(acceptors, callbacks_)
  /\ events' = IF config.history
                 THEN [events EXCEPT
                         !.lastClosed = CloseOrder(sockets_),
                         !.lastStopped = StopCalls(callbacks_, callbacks_)]
                 ELSE Logged(events, LifeStopAll(events.life, callbacks_))
  /\ napiIdToCallback_' = EmptyMap
  /\ localCallbackIndex_' = -1
  /\ lastOp' = IF lastOp \in StopOps THEN "stopAcceptingAgain" ELSE "stopAccepting"
  /\ UNCHANGED <<callbacks_, callbackIndex_, acceptRate_, lastAccepTimestamp_,
                 numDroppedConnections_, config, now, conns, wake, ub>>

stopAccepting ==
  /\ Idle
  /\ accepting_' = FALSE
  /\ sockets_' = <<>>
  /\ backoffTimeout_' = NoTimer
  /\ LET callbacksCopy == callbacks_
         swapped == <<>>
     IN  /\ callbacks_' = swapped
         /\ acceptors' = StopConsumers(acceptors, callbacksCopy)
         /\ events' = IF config.history
                        THEN [events EXCEPT
                                !.lastClosed = CloseOrder(sockets_),
                                !.lastStopped = StopCalls(callbacksCopy, swapped)]
                        ELSE Logged(events,
                                    LifeStopAll(events.life, callbacksCopy))
  /\ napiIdToCallback_' = EmptyMap
  /\ localCallbackIndex_' = -1
  /\ lastOp' = IF lastOp \in StopOps THEN "stopAcceptingAgain" ELSE "stopAccepting"
  /\ UNCHANGED <<callbackIndex_, acceptRate_, lastAccepTimestamp_,
                 numDroppedConnections_, config, now, conns, wake, ub>>

(***************************************************************************)
(* addAcceptCallback(callback, eventBase, maxAtOnce); fail: the            *)
(* RemoteAcceptor cannot be created or started.                            *)
(***************************************************************************)
NapiEmplace(map, napiId, info) ==
  IF napiId # NoNapi /\ napiId \notin DOMAIN map THEN (napiId :> info) @@ map ELSE map

NapiSetConsumer(map, napiId, acceptor) ==
  IF napiId # NoNapi /\ napiId \in DOMAIN map
    THEN [map EXCEPT ![napiId].consumer = acceptor] ELSE map

RunStartAccepting(run, socks) == IF run THEN RegisterAll(socks) ELSE socks

\* Variant: the entry of the failed call stays in the table.
PopBack_Keeps(cbs) == cbs
\* callbacks_.pop_back()
PopBack(cbs) == SubSeq(cbs, 1, Len(cbs) - 1)

addAcceptCallback(callback, eventBase, fail) ==
  /\ Idle
  /\ Len(callbacks_) < MaxCallbacks
  /\ <<callback, eventBase>> \in config.adds
  /\ config.life => events.life[callback].regs < MaxLifeRegs
  /\ eventBase # NullEventBase => Len(acceptors) < config.maxAcceptors
  /\ fail => eventBase # NullEventBase
  /\ LET runStartAccepting == accepting_ /\ callbacks_ = <<>>
         napiId == IF eventBase # NullEventBase
                     THEN config.napi[eventBase] ELSE NoNapi
         map1 == NapiEmplace(napiIdToCallback_, napiId,
                             CallbackInfo(callback, eventBase, NoConsumer))
         acceptor == Len(acceptors) + 1
     IN  IF eventBase = NullEventBase
           THEN /\ callbacks_' = Append(callbacks_,
                                   CallbackInfo(callback, eventBase, NoConsumer))
                /\ napiIdToCallback_' = map1
                /\ sockets_' = RunStartAccepting(runStartAccepting, sockets_)
                /\ events' = Logged(events,
                                LifeStarted(LifeRegistered(events.life, callback),
                                            callback))
                /\ lastOp' = "addAcceptCallback"
                /\ UNCHANGED <<acceptors, localCallbackIndex_>>
           ELSE IF fail
             THEN /\ callbacks_' =
                       PopBack(Append(callbacks_,
                                      CallbackInfo(callback, eventBase, NoConsumer)))
                  /\ napiIdToCallback_' = map1
                  /\ lastOp' = "addAcceptCallbackFailed"
                  /\ UNCHANGED <<acceptors, localCallbackIndex_, sockets_,
                                 events>>
             ELSE /\ acceptors' = Append(acceptors,
                       [callback |-> callback, eventBase |-> eventBase,
                        phase |-> "starting", stop |-> FALSE, queue |-> <<>>])
                  /\ callbacks_' = Append(callbacks_,
                                     CallbackInfo(callback, eventBase, acceptor))
                  /\ napiIdToCallback_' = NapiSetConsumer(map1, napiId, acceptor)
                  /\ localCallbackIndex_' =
                       IF localCallbackIndex_ < 0 /\ eventBase = PrimaryEventBase
                         THEN Len(callbacks_) ELSE localCallbackIndex_
                  /\ sockets_' = RunStartAccepting(runStartAccepting, sockets_)
                  /\ events' = Logged(events,
                                  LifeRegistered(events.life, callback))
                  /\ lastOp' = "addAcceptCallback"
  /\ UNCHANGED <<accepting_, callbackIndex_, backoffTimeout_, acceptRate_,
                 lastAccepTimestamp_, numDroppedConnections_, config, now,
                 conns, wake, ub>>

(***************************************************************************)
(* removeAcceptCallback(callback, eventBase).                              *)
(***************************************************************************)
\* Variant: the loop of the request is not compared.
Matches_AnyLoop(info, callback, eventBase) == info.callback = callback
Matches(info, callback, eventBase) ==
  info.callback = callback /\
  (info.eventBase = eventBase \/ eventBase = NullEventBase)

RemoveAt(seq, k) ==
  [i \in 1..(Len(seq) - 1) |-> IF i < k THEN seq[i] ELSE seq[i + 1]]

\* Variant: the cursor is not moved back with the entries behind the hole.
CursorAfterRemove_NoDecrement(n, idx, size) == IF idx >= size THEN 0 ELSE idx
\* the cursor after the entry at index n was erased; size is the new size
CursorAfterRemove(n, idx, size) ==
  IF n < idx THEN idx - 1 ELSE IF idx >= size THEN 0 ELSE idx

NapiErase(map, callback, eventBase) ==
  [id \in {i \in DOMAIN map : ~Matches(map[i], callback, eventBase)} |-> map[id]]

\* Variant: removing the last callback also clears accepting_.
AcceptingAfterRemove_ClearsOnLast(acc, cbs) == acc /\ cbs # <<>>
\* removing the last callback leaves accepting_ as it is
AcceptingAfterRemove(acc, cbs) == acc

\* Variant: the handlers stay registered when the last callback is removed.
UnregisterIfLast_Never(acc, cbs, socks) == socks
UnregisterIfLast(acc, cbs, socks) ==
  IF acc /\ cbs = <<>> THEN UnregisterAll(socks) ELSE socks

removeAcceptCallback(callback, eventBase) ==
  /\ Idle
  /\ IF \E i \in DOMAIN callbacks_ : Matches(callbacks_[i], callback, eventBase)
       THEN LET k == CHOOSE i \in DOMAIN callbacks_ :
                       /\ Matches(callbacks_[i], callback, eventBase)
                       /\ \A j \in 1..(i - 1) :
                            ~Matches(callbacks_[j], callback, eventBase)
                info == callbacks_[k]
                cbs == RemoveAt(callbacks_, k)
            IN  /\ napiIdToCallback_' =
                     NapiErase(napiIdToCallback_, callback, eventBase)
                /\ callbacks_' = cbs
                /\ callbackIndex_' = CursorAfterRemove(k - 1, callbackIndex_, Len(cbs))
                /\ acceptors' = IF info.consumer # NoConsumer
                                  THEN [acceptors EXCEPT ![info.consumer].stop = TRUE]
                                  ELSE acceptors
                /\ accepting_' = AcceptingAfterRemove(accepting_, cbs)
                /\ sockets_' = UnregisterIfLast(accepting_, cbs, sockets_)
                /\ events' = IF config.history
                               THEN [events EXCEPT
                                       !.lastStopped = StopCalls(<<info>>, cbs)]
                               ELSE Logged(events,
                                           LifeStopAll(events.life, <<info>>))
                /\ lastOp' = "removeAcceptCallback"
       ELSE /\ lastOp' = "removeAcceptCallbackNotFound"
            /\ UNCHANGED <<napiIdToCallback_, callbacks_, callbackIndex_,
                           acceptors, sockets_, accepting_, events>>
  /\ UNCHANGED <<localCallbackIndex_, backoffTimeout_, acceptRate_,
                 lastAccepTimestamp_, numDroppedConnections_, config, now,
                 conns, wake, ub>>

(***************************************************************************)
(* enterBackoff(): allocFail, the timer cannot be allocated; schedFail,    *)
(* scheduleTimeout fails.                                                  *)
(***************************************************************************)
BackoffResult(acc, timer, socks, ev) ==
  [accepting |-> acc, timer |-> timer, sockets |-> socks, events |-> ev]

\* Variant: the sockets are unregistered before the timer is known to run.
enterBackoff_PausesFirst(acc, timer, socks, ev, allocFail, schedFail) ==
  IF ~timer.alloc /\ allocFail
    THEN BackoffResult(acc, timer, UnregisterAll(socks),
                       [ev EXCEPT !.backoffError = @ + 1])
    ELSE IF schedFail
      THEN BackoffResult(acc, [timer EXCEPT !.alloc = TRUE, !.scheduled = FALSE],
                         UnregisterAll(socks), [ev EXCEPT !.backoffError = @ + 1])
      ELSE BackoffResult(acc,
                         [alloc |-> TRUE, scheduled |-> TRUE,
                          expiry |-> now + timeoutMS],
                         UnregisterAll(socks),
                         [ev EXCEPT !.backoffStarted = @ + 1, !.startedAt = now])
enterBackoff(acc, timer, socks, ev, allocFail, schedFail) ==
  IF ~timer.alloc /\ allocFail
    THEN BackoffResult(acc, timer, socks, [ev EXCEPT !.backoffError = @ + 1])
    ELSE IF schedFail
      THEN BackoffResult(acc, [timer EXCEPT !.alloc = TRUE, !.scheduled = FALSE],
                         socks, [ev EXCEPT !.backoffError = @ + 1])
      ELSE \* accepting_ is left set: it is the state the user asked for
           BackoffResult(acc,
                         [alloc |-> TRUE, scheduled |-> TRUE,
                          expiry |-> now + timeoutMS],
                         UnregisterAll(socks),
                         [ev EXCEPT !.backoffStarted = @ + 1, !.startedAt = now])

\* AsyncTimeout: the timer fires once its interval has passed
TimerDue == backoffTimeout_.scheduled /\ now >= backoffTimeout_.expiry

\* Variant: the expiry leaves the handlers unregistered.
ReRegister_Never(cbs, socks) == socks
\* Variant: the expiry registers the handlers whatever the table holds.
ReRegister_Always(cbs, socks) == RegisterAll(socks)
ReRegister(cbs, socks) == IF cbs = <<>> THEN socks ELSE RegisterAll(socks)

backoffTimeoutExpired ==
  /\ Idle
  /\ TimerDue
  /\ backoffTimeout_' = [backoffTimeout_ EXCEPT !.scheduled = FALSE]
  /\ sockets_' = ReRegister(callbacks_, sockets_)
  /\ events' = [events EXCEPT !.backoffEnded = @ + 1]
  /\ lastOp' = "backoffTimeoutExpired"
  /\ UNCHANGED <<accepting_, callbacks_, callbackIndex_, localCallbackIndex_,
                 napiIdToCallback_, acceptRate_, lastAccepTimestamp_,
                 numDroppedConnections_, config, now, acceptors, conns, wake, ub>>

(***************************************************************************)
(* handlerReady(events, fd, addressFamily): the READ-ready wake of one     *)
(* listening socket, then one step per iteration of its accept loop.       *)
(***************************************************************************)
handlerReady(h) ==
  /\ Idle
  /\ h \in DOMAIN sockets_
  /\ sockets_[h].registered
  /\ wake' = [sock |-> h, n |-> 0]
  /\ lastOp' = "handlerReady"
  /\ UNCHANGED <<accepting_, sockets_, callbacks_, callbackIndex_,
                 localCallbackIndex_, napiIdToCallback_, backoffTimeout_,
                 acceptRate_, lastAccepTimestamp_, numDroppedConnections_,
                 config, now, acceptors, conns, events, ub>>

InWake == wake # NoWake /\ ~ub /\ wake.n < maxAcceptAtOnce_

\* Variant: an iteration that goes on does not count.
NextIteration_NoCount(continue) == IF continue THEN wake ELSE NoWake
\* for (n = 0; n < maxAcceptAtOnce_; ++n): the position after this iteration
NextIteration(continue) ==
  IF continue /\ wake.n + 1 < maxAcceptAtOnce_
    THEN [wake EXCEPT !.n = @ + 1] ELSE NoWake

\* Variant: the loop re-checks only the table.
LoopContinues_TableOnly(acc, cbs) == cbs # <<>>
\* if (!accepting_ || callbacks_.empty()) break;
LoopContinues(acc, cbs) == acc /\ cbs # <<>>

\* What an undefined dispatch (a null or dangling consumer, a read past the
\* end of callbacks_) can do with the descriptor: nothing (the process dies
\* or the descriptor is forgotten), or any one of the defined outcomes.
UbOutcomes == {"lost", "inline", "enqueued", "closed"}

UbRecord(start, d, t, outcome) ==
  [ConnRecord(start, d, t) EXCEPT
     !.inl = IF outcome = "inline" THEN 1 ELSE 0,
     !.enq = IF outcome = "enqueued" THEN 1 ELSE 0,
     !.dlv = IF outcome = "enqueued" THEN 1 ELSE 0,
     !.closed = IF outcome = "closed" THEN 1 ELSE 0]

RateLimitedRecord ==
  [start |-> callbackIndex_, slot |-> -1, target |-> 0, tried |-> 0, inl |-> 0,
   enq |-> 0, closed |-> 1, dlv |-> 0, exp |-> 0, t |-> now, reported |-> 0,
   waited |-> 0]

\* accept succeeded and returned a new descriptor.  cbPause: the callback
\* invoked inline calls pauseAccepting() before it returns.
acceptConnection(rnd, sockNapi, cbPause) ==
  /\ InWake
  /\ Len(conns) < config.maxConns
  /\ config.speed > 0 =>
       acceptRate_.den * Pow10(Len(callbacks_)) <= Pow10(MaxRateCuts)
  /\ lastAccepTimestamp_' = now
  /\ LET fd == Len(conns) + 1
         rs == RateStep(rnd)
         d == dispatchSocket(fd, sockNapi, rs.rate)
     IN  IF rs.reject
           THEN /\ cbPause = FALSE
                /\ acceptRate_' = rs.rate
                /\ numDroppedConnections_' = numDroppedConnections_ + 1
                /\ conns' = Append(conns, RateLimitedRecord)
                /\ wake' = NextIteration(TRUE)
                /\ lastOp' = "acceptRateLimited"
                /\ UNCHANGED <<accepting_, sockets_, backoffTimeout_,
                               callbackIndex_, acceptors, ub, events>>
           ELSE /\ cbPause => d.inl = 1 /\ ~d.ub
                /\ acceptRate_' = d.rate
                /\ numDroppedConnections_' = numDroppedConnections_ + d.dropped
                /\ IF d.ub
                     THEN \E outcome \in UbOutcomes :
                            conns' = Append(conns,
                                       UbRecord(callbackIndex_, d, now, outcome))
                     ELSE conns' = Append(conns, ConnRecord(callbackIndex_, d, now))
                /\ callbackIndex_' = d.index
                /\ acceptors' = d.acceptors
                /\ ub' = d.ub
                /\ accepting_' = IF cbPause THEN FALSE ELSE accepting_
                /\ sockets_' = IF cbPause THEN UnregisterAll(sockets_) ELSE sockets_
                /\ backoffTimeout_' = IF cbPause THEN cancelTimeout(backoffTimeout_)
                                      ELSE backoffTimeout_
                /\ wake' = IF d.ub THEN NoWake
                           ELSE NextIteration(LoopContinues(accepting_', callbacks_))
                /\ events' = IF d.inl = 1 /\ ~d.ub
                               THEN Logged(events,
                                           LifeDelivered(events.life, d.inlineCb))
                               ELSE events
                /\ lastOp' = IF cbPause THEN "acceptConnectionPaused"
                             ELSE "acceptConnection"
  /\ UNCHANGED <<callbacks_, localCallbackIndex_, napiIdToCallback_, config,
                 now>>

\* accept failed with errno err.
acceptFailed(err, rnd, allocFail, schedFail) ==
  /\ InWake
  /\ err = "EMFILE" =>
       /\ events.backoffStarted + events.backoffError < config.maxBackoffs
       /\ now + timeoutMS <= config.maxTicks * TickMs
  /\ err # "EMFILE" => ~allocFail /\ ~schedFail
  /\ allocFail => ~backoffTimeout_.alloc /\ ~schedFail
  /\ RateStep(rnd).reject => numDroppedConnections_ < config.maxConns
  /\ lastAccepTimestamp_' = now
  /\ LET rs == RateStep(rnd)
         b == IF err = "EMFILE"
                THEN enterBackoff(accepting_, backoffTimeout_, sockets_, events,
                                  allocFail, schedFail)
                ELSE BackoffResult(accepting_, backoffTimeout_, sockets_, events)
         e == dispatchError
     IN  IF rs.reject
           THEN /\ acceptRate_' = rs.rate
                /\ numDroppedConnections_' = numDroppedConnections_ + 1
                /\ wake' = NextIteration(TRUE)
                /\ lastOp' = "acceptFailedRateLimited"
                /\ UNCHANGED <<accepting_, sockets_, backoffTimeout_, events,
                               callbackIndex_, acceptors, ub>>
           ELSE IF err = "EAGAIN"
             THEN /\ acceptRate_' = rs.rate
                  /\ wake' = NoWake
                  /\ lastOp' = "acceptEAGAIN"
                  /\ UNCHANGED <<accepting_, sockets_, backoffTimeout_, events,
                                 callbackIndex_, acceptors, ub,
                                 numDroppedConnections_>>
             ELSE /\ acceptRate_' = rs.rate
                  /\ accepting_' = b.accepting
                  /\ backoffTimeout_' = b.timer
                  /\ sockets_' = b.sockets
                  /\ events' = LET ev == [b.events EXCEPT
                                             !.acceptError = TRUE,
                                             !.lastError =
                                               IF config.life
                                                 THEN [inl |-> e.inl,
                                                       enq |-> e.enq,
                                                       tried |-> e.tried]
                                                 ELSE @]
                                IN  IF e.inl = 1 /\ ~e.ub
                                      THEN Logged(ev, LifeDelivered(ev.life,
                                                        ErrorTarget(e)))
                                      ELSE ev
                  /\ callbackIndex_' = e.index
                  /\ acceptors' = e.acceptors
                  /\ ub' = e.ub
                  /\ wake' = NoWake
                  /\ lastOp' = IF err = "EMFILE" THEN "acceptEMFILE"
                               ELSE "acceptError"
                  /\ UNCHANGED numDroppedConnections_
  /\ UNCHANGED <<callbacks_, localCallbackIndex_, napiIdToCallback_,
                 config, now, conns>>

(***************************************************************************)
(* The consumer loops: the tasks RemoteAcceptor::start and ::stop schedule *)
(* with runInEventBaseThread, and the queue consumer.  A task of an        *)
(* acceptor bound to the primary loop runs between primary-loop steps.     *)
(***************************************************************************)
OnItsLoop(a) ==
  /\ ~ub
  /\ a \in DOMAIN acceptors
  /\ acceptors[a].eventBase = PrimaryEventBase => wake = NoWake

\* callback_->acceptStarted(); queue_.startConsuming(eventBase);
RunStart(a) ==
  /\ OnItsLoop(a)
  /\ acceptors[a].phase = "starting"
  /\ acceptors' = [acceptors EXCEPT ![a].phase = "consuming"]
  /\ events' = Logged(events, LifeStarted(events.life, acceptors[a].callback))
  /\ UNCHANGED <<accepting_, sockets_, callbacks_, callbackIndex_,
                 localCallbackIndex_, napiIdToCallback_, backoffTimeout_,
                 acceptRate_, lastAccepTimestamp_, numDroppedConnections_,
                 config, now, conns, wake, lastOp, ub>>

\* the position of a message in the order the primary loop made them
Rank(msg) == IF msg.type = "conn" THEN 2 * msg.fd ELSE 2 * msg.after + 1

\* duration_cast<milliseconds>(deadline - timeBeforeEnqueue)
ReportedMs(msg, t) == msg.deadline - msg.timeBeforeEnqueue

\* Variant: the deadline is not looked at.
Execute_NoDeadline(msg, cs) ==
  IF msg.type # "conn" THEN cs
  ELSE [cs EXCEPT ![msg.fd].dlv = @ + 1]
\* NewConnMessage::operator() / ErrorMessage::operator()
Execute(msg, cs) ==
  IF msg.type # "conn" THEN cs
  ELSE IF isExpired(msg, now)
    THEN [cs EXCEPT ![msg.fd].exp = @ + 1,
                    ![msg.fd].reported = ReportedMs(msg, now),
                    ![msg.fd].waited = now - msg.timeBeforeEnqueue]
    ELSE [cs EXCEPT ![msg.fd].dlv = @ + 1]

\* an expired connection is dropped without a call to the callback
InvokesCallback(msg) == msg.type # "conn" \/ ~isExpired(msg, now)

ConsumeMessage(a) ==
  /\ OnItsLoop(a)
  /\ acceptors[a].phase = "consuming"
  /\ acceptors[a].queue # <<>>
  /\ conns' = Execute(Head(acceptors[a].queue), conns)
  /\ acceptors' = [acceptors EXCEPT ![a].queue = Tail(@)]
  /\ events' = IF InvokesCallback(Head(acceptors[a].queue))
                 THEN Logged(events,
                             LifeDelivered(events.life, acceptors[a].callback))
                 ELSE events
  /\ UNCHANGED <<accepting_, sockets_, callbacks_, callbackIndex_,
                 localCallbackIndex_, napiIdToCallback_, backoffTimeout_,
                 acceptRate_, lastAccepTimestamp_, numDroppedConnections_,
                 config, now, wake, lastOp, ub>>

\* callback->acceptStopped(); delete this;
DeleteAcceptor(acc) == [acc EXCEPT !.phase = "deleted", !.queue = <<>>]

RunStop(a) ==
  /\ OnItsLoop(a)
  /\ acceptors[a].phase = "consuming"
  /\ acceptors[a].stop
  /\ acceptors' = [acceptors EXCEPT ![a] = DeleteAcceptor(@)]
  /\ events' = Logged(events, LifeStopped(events.life, acceptors[a].callback))
  /\ UNCHANGED <<accepting_, sockets_, callbacks_, callbackIndex_,
                 localCallbackIndex_, napiIdToCallback_, backoffTimeout_,
                 acceptRate_, lastAccepTimestamp_, numDroppedConnections_,
                 config, now, conns, wake, lastOp, ub>>

\* The clock is read by the backoff timer, by the message deadlines and by
\* the rate recovery; it advances while one of them can observe it.
TimeObserved ==
  TimerArmed \/ config.speed > 0 \/ config.queueTimeout # 0

Tick ==
  /\ ~ub
  /\ now < config.maxTicks * TickMs
  /\ TimeObserved
  /\ now' = now + TickMs
  /\ UNCHANGED <<accepting_, sockets_, callbacks_, callbackIndex_,
                 localCallbackIndex_, napiIdToCallback_, backoffTimeout_,
                 acceptRate_, lastAccepTimestamp_, numDroppedConnections_,
                 config, acceptors, conns, events, wake, lastOp, ub>>

(***************************************************************************)
(* The specification.                                                      *)
(***************************************************************************)
SockNapis == {NoNapi} \cup NapiIds
Rands == {0, RandMax}
AddTargets == {NullEventBase} \cup EventBases

Next ==
  \/ \E k \in 1..MaxSockets : useExistingSockets(k)
  \/ \E k \in 1..MaxSockets : bind(k)
  \/ startAccepting
  \/ pauseAccepting
  \/ stopAccepting
  \/ \E cb \in Callbacks, eb \in AddTargets, fail \in BOOLEAN :
       addAcceptCallback(cb, eb, fail)
  \/ \E cb \in Callbacks, eb \in AddTargets : removeAcceptCallback(cb, eb)
  \/ \E h \in DOMAIN sockets_ : handlerReady(h)
  \/ \E rnd \in Rands, napi \in SockNapis, cbPause \in BOOLEAN :
       acceptConnection(rnd, napi, cbPause)
  \/ \E err \in {"EAGAIN", "EMFILE", "EOTHER"}, rnd \in Rands,
        allocFail \in BOOLEAN, schedFail \in BOOLEAN :
       acceptFailed(err, rnd, allocFail, schedFail)
  \/ backoffTimeoutExpired
  \/ \E a \in DOMAIN acceptors : RunStart(a)
  \/ \E a \in DOMAIN acceptors : ConsumeMessage(a)
  \/ \E a \in DOMAIN acceptors : RunStop(a)
  \/ Tick

Spec == Init /\ [][Next]_vars

(***************************************************************************)
(* The backoff under the scheduling of the primary EventBase: the clock    *)
(* advances, a wake that has started runs its accept loop to the end, and  *)
(* a due timer is run by the loop however often I/O handlers run.          *)
(***************************************************************************)
WakeStep ==
  \/ \E rnd \in Rands, napi \in SockNapis, cbPause \in BOOLEAN :
       acceptConnection(rnd, napi, cbPause)
  \/ \E err \in {"EAGAIN", "EMFILE", "EOTHER"}, rnd \in Rands,
        allocFail \in BOOLEAN, schedFail \in BOOLEAN :
       acceptFailed(err, rnd, allocFail, schedFail)

FairSpec ==
  /\ Init /\ [][Next]_vars
  /\ WF_vars(Tick)
  /\ WF_vars(WakeStep)
  /\ SF_vars(backoffTimeoutExpired)

(***************************************************************************)
(* The dispatch of accepted connections on a listener that is already set  *)
(* up: one registered socket, accepting, a DispatchTable of remote and     *)
(* inline entries whose RemoteAcceptors are consuming, and the cursor at   *)
(* any entry.  No callback is added or removed.                            *)
(***************************************************************************)
MaxDispatchConns == 4
MaxQueueDepth == 2      \* queue depth of the queueing specification
MaxQueueConns == 2      \* connections accepted in the queueing specification
MaxQueueTicks == 2      \* clock ticks in the queueing specification

DispatchTables == {<<"eb1", "eb2">>, <<"eb1", NullEventBase>>}

CallbackOf(i) == IF i % 2 = 1 THEN "cbA" ELSE "cbB"

\* the acceptor of entry i: the remote entries are numbered in table order
AcceptorOf(table, i) ==
  Cardinality({j \in 1..i : table[j] # NullEventBase})

TableEntries(table) ==
  [i \in DOMAIN table |->
     CallbackInfo(CallbackOf(i), table[i],
                  IF table[i] = NullEventBase THEN NoConsumer
                  ELSE AcceptorOf(table, i))]

TableAcceptors(table) ==
  LET remote == {i \in DOMAIN table : table[i] # NullEventBase}
  IN  [a \in 1..Cardinality(remote) |->
         LET i == CHOOSE j \in remote : AcceptorOf(table, j) = a
         IN  [callback |-> CallbackOf(i), eventBase |-> table[i],
              phase |-> "consuming", stop |-> FALSE, queue |-> <<>>]]

DispatchConfig ==
  [speed |-> 0, queueTimeout |-> 0, napi |-> NoNapiIds,
   maxSockets |-> 1, maxAcceptors |-> 0, maxConns |-> MaxDispatchConns,
   maxBackoffs |-> 0, maxTicks |-> 0, maxMsgs |-> MaxMsgsInQueue,
   history |-> FALSE, life |-> FALSE, adds |-> {}]

InitDispatch ==
  \E table \in DispatchTables, c0 \in 0..1 :
    /\ c0 < Len(table)
    /\ accepting_ = TRUE
    /\ sockets_ = <<[id |-> 1, registered |-> TRUE]>>
    /\ callbacks_ = TableEntries(table)
    /\ callbackIndex_ = c0
    /\ localCallbackIndex_ = -1
    /\ napiIdToCallback_ = EmptyMap
    /\ backoffTimeout_ = NoTimer
    /\ acceptRate_ = RateOne
    /\ lastAccepTimestamp_ = 0
    /\ numDroppedConnections_ = 0
    /\ config = DispatchConfig
    /\ now = 0
    /\ acceptors = TableAcceptors(table)
    /\ conns = <<>>
    /\ events = NoEvents
    /\ wake = NoWake
    /\ lastOp = "startAccepting"
    /\ ub = FALSE

NextDispatch ==
  \/ \E h \in DOMAIN sockets_ : handlerReady(h)
  \/ \E rnd \in Rands, napi \in SockNapis, cbPause \in BOOLEAN :
       acceptConnection(rnd, napi, cbPause)
  \/ \E err \in {"EAGAIN", "EOTHER"}, rnd \in Rands :
       acceptFailed(err, rnd, FALSE, FALSE)
  \/ \E a \in DOMAIN acceptors : ConsumeMessage(a)

SpecDispatch == InitDispatch /\ [][NextDispatch]_vars

(***************************************************************************)
(* The queueing specification: remote consumers with deeper queues and a   *)
(* queue timeout, the clock running while messages wait.                   *)
(***************************************************************************)
QueueTables == {<<"eb1">>, <<"eb1", "eb2">>}

\* the values of queueTimeout_: unset, or one tick
QueueTimeouts == {0, TickMs}

QueueConfig(queueTimeout) ==
  [speed |-> 0, queueTimeout |-> queueTimeout, napi |-> NoNapiIds,
   maxSockets |-> 1, maxAcceptors |-> 0, maxConns |-> MaxQueueConns,
   maxBackoffs |-> 0, maxTicks |-> MaxQueueTicks, maxMsgs |-> MaxQueueDepth,
   history |-> FALSE, life |-> FALSE, adds |-> {}]

InitQueue ==
  \E table \in QueueTables, queueTimeout \in QueueTimeouts :
    /\ accepting_ = TRUE
    /\ sockets_ = <<[id |-> 1, registered |-> TRUE]>>
    /\ callbacks_ = TableEntries(table)
    /\ callbackIndex_ = 0
    /\ localCallbackIndex_ = -1
    /\ napiIdToCallback_ = EmptyMap
    /\ backoffTimeout_ = NoTimer
    /\ acceptRate_ = RateOne
    /\ lastAccepTimestamp_ = 0
    /\ numDroppedConnections_ = 0
    /\ config = QueueConfig(queueTimeout)
    /\ now = 0
    /\ acceptors = TableAcceptors(table)
    /\ conns = <<>>
    /\ events = NoEvents
    /\ wake = NoWake
    /\ lastOp = "startAccepting"
    /\ ub = FALSE

NextQueue ==
  \/ \E h \in DOMAIN sockets_ : handlerReady(h)
  \/ \E rnd \in Rands, napi \in SockNapis :
       acceptConnection(rnd, napi, FALSE)
  \/ \E err \in {"EAGAIN", "EOTHER"}, rnd \in Rands :
       acceptFailed(err, rnd, FALSE, FALSE)
  \/ \E a \in DOMAIN acceptors : ConsumeMessage(a)
  \/ Tick

SpecQueue == InitQueue /\ [][NextQueue]_vars

(***************************************************************************)
(* The shutdown specification: the lifecycle operations with more sockets  *)
(* and consumers, and with the record of what stopAccepting closed and     *)
(* whom it told.                                                           *)
(***************************************************************************)
MaxStopSockets == 3     \* sockets of the shutdown specification
MaxStopAcceptors == 2   \* RemoteAcceptors created in the shutdown specification

StopConfig ==
  [speed |-> 0, queueTimeout |-> 0, napi |-> NoNapiIds,
   maxSockets |-> MaxStopSockets, maxAcceptors |-> MaxStopAcceptors,
   maxConns |-> 0, maxBackoffs |-> 0, maxTicks |-> 0,
   maxMsgs |-> MaxMsgsInQueue, history |-> TRUE, life |-> FALSE,
   adds |-> {<<"cbA", NullEventBase>>, <<"cbB", NullEventBase>>,
             <<"cbB", "eb1">>}]

InitStop == InitWith(StopConfig)

NextStop ==
  \/ \E k \in 1..MaxStopSockets : useExistingSockets(k)
  \/ \E k \in 1..MaxStopSockets : bind(k)
  \/ startAccepting
  \/ pauseAccepting
  \/ stopAccepting
  \/ \E cb \in Callbacks, eb \in AddTargets, fail \in BOOLEAN :
       addAcceptCallback(cb, eb, fail)
  \/ \E cb \in Callbacks, eb \in AddTargets : removeAcceptCallback(cb, eb)
  \/ \E a \in DOMAIN acceptors : RunStart(a)
  \/ \E a \in DOMAIN acceptors : RunStop(a)

SpecStop == InitStop /\ [][NextStop]_vars

(***************************************************************************)
(* The cursor specification: a table of three entries, the cursor anywhere *)
(* in it, connections dispatched and callbacks removed.                    *)
(***************************************************************************)
MaxCursorConns == 2     \* connections accepted in the cursor specification

CursorTable == <<"eb1", "eb2", NullEventBase>>

CursorConfig ==
  [speed |-> 0, queueTimeout |-> 0, napi |-> NoNapiIds,
   maxSockets |-> 1, maxAcceptors |-> 0, maxConns |-> MaxCursorConns,
   maxBackoffs |-> 0, maxTicks |-> 0, maxMsgs |-> MaxMsgsInQueue,
   history |-> FALSE, life |-> FALSE, adds |-> {}]

InitCursor ==
  \E c0 \in 0..(Len(CursorTable) - 1) :
    /\ accepting_ = TRUE
    /\ sockets_ = <<[id |-> 1, registered |-> TRUE]>>
    /\ callbacks_ = TableEntries(CursorTable)
    /\ callbackIndex_ = c0
    /\ localCallbackIndex_ = -1
    /\ napiIdToCallback_ = EmptyMap
    /\ backoffTimeout_ = NoTimer
    /\ acceptRate_ = RateOne
    /\ lastAccepTimestamp_ = 0
    /\ numDroppedConnections_ = 0
    /\ config = CursorConfig
    /\ now = 0
    /\ acceptors = TableAcceptors(CursorTable)
    /\ conns = <<>>
    /\ events = NoEvents
    /\ wake = NoWake
    /\ lastOp = "startAccepting"
    /\ ub = FALSE

NextCursor ==
  \/ \E cb \in Callbacks, eb \in AddTargets : removeAcceptCallback(cb, eb)
  \/ \E h \in DOMAIN sockets_ : handlerReady(h)
  \/ \E rnd \in Rands, napi \in SockNapis :
       acceptConnection(rnd, napi, FALSE)
  \/ \E rnd \in Rands : acceptFailed("EAGAIN", rnd, FALSE, FALSE)
  \/ \E a \in DOMAIN acceptors : ConsumeMessage(a)
  \/ \E a \in DOMAIN acceptors : RunStop(a)

SpecCursor == InitCursor /\ [][NextCursor]_vars

(***************************************************************************)
(* The NAPI specification: the consumer loops report the same NAPI id, so  *)
(* that addAcceptCallback fills napiIdToCallback_ and nextCallback finds   *)
(* its entries.                                                            *)
(***************************************************************************)
MaxNapiAcceptors == 2   \* RemoteAcceptors created in the NAPI specification
MaxNapiConns == 1       \* connections accepted in the NAPI specification

NapiConfig ==
  [speed |-> 0, queueTimeout |-> 0, napi |-> SharedNapiIds,
   maxSockets |-> 1, maxAcceptors |-> MaxNapiAcceptors,
   maxConns |-> MaxNapiConns, maxBackoffs |-> 0, maxTicks |-> 0,
   maxMsgs |-> MaxMsgsInQueue, history |-> FALSE, life |-> FALSE,
   adds |-> {<<"cbA", "eb1">>, <<"cbB", "eb2">>}]

InitNapi == InitWith(NapiConfig)

NextNapi ==
  \/ bind(1)
  \/ startAccepting
  \/ stopAccepting
  \/ \E cb \in Callbacks, eb \in AddTargets, fail \in BOOLEAN :
       addAcceptCallback(cb, eb, fail)
  \/ \E cb \in Callbacks, eb \in AddTargets : removeAcceptCallback(cb, eb)
  \/ \E h \in DOMAIN sockets_ : handlerReady(h)
  \/ \E rnd \in Rands, napi \in SockNapis :
       acceptConnection(rnd, napi, FALSE)
  \/ \E rnd \in Rands : acceptFailed("EAGAIN", rnd, FALSE, FALSE)
  \/ \E a \in DOMAIN acceptors : RunStart(a)
  \/ \E a \in DOMAIN acceptors : ConsumeMessage(a)
  \/ \E a \in DOMAIN acceptors : RunStop(a)

SpecNapi == InitNapi /\ [][NextNapi]_vars

(***************************************************************************)
(* The rate specification: acceptRateAdjustSpeed_ is positive, the queue   *)
(* of the one consumer fills up, accepts fail, and the clock runs.  The    *)
(* rate starts at 1 or at a value that recoveries and cuts have left.      *)
(***************************************************************************)
MaxRateConns == 2       \* connections accepted in the rate specification
MaxRateTicks == 2       \* clock ticks in the rate specification

RateInits == {RateOne, [num |-> 9, den |-> 10], [num |-> 1, den |-> 4]}

RandHalf == RandMax \div 2
RateRands == {0, RandHalf, RandMax}

RateConfig ==
  [speed |-> 1, queueTimeout |-> 0, napi |-> NoNapiIds,
   maxSockets |-> 1, maxAcceptors |-> 0, maxConns |-> MaxRateConns,
   maxBackoffs |-> 1, maxTicks |-> MaxRateTicks, maxMsgs |-> MaxMsgsInQueue,
   history |-> FALSE, life |-> FALSE, adds |-> {}]

\* acceptRateAdjustSpeed_: 0 as constructed, or set with
\* setAcceptRateAdjustSpeed before the listener accepts
RateSpeeds == {0, 1}

\* a rate below 1 comes from a queue-full cut, and so from a positive speed
InitRate ==
  \E speed \in RateSpeeds, rate \in RateInits :
    /\ speed = 0 => rate = RateOne
    /\ accepting_ = TRUE
    /\ sockets_ = <<[id |-> 1, registered |-> TRUE]>>
    /\ callbacks_ = TableEntries(<<"eb1">>)
    /\ callbackIndex_ = 0
    /\ localCallbackIndex_ = -1
    /\ napiIdToCallback_ = EmptyMap
    /\ backoffTimeout_ = NoTimer
    /\ acceptRate_ = rate
    /\ lastAccepTimestamp_ = 0
    /\ numDroppedConnections_ = 0
    /\ config = [RateConfig EXCEPT !.speed = speed]
    /\ now = 0
    /\ acceptors = TableAcceptors(<<"eb1">>)
    /\ conns = <<>>
    /\ events = NoEvents
    /\ wake = NoWake
    /\ lastOp = "startAccepting"
    /\ ub = FALSE

NextRate ==
  \/ \E h \in DOMAIN sockets_ : handlerReady(h)
  \/ \E rnd \in RateRands, napi \in SockNapis :
       acceptConnection(rnd, napi, FALSE)
  \/ \E err \in {"EAGAIN", "EMFILE", "EOTHER"}, rnd \in RateRands :
       acceptFailed(err, rnd, FALSE, FALSE)
  \/ backoffTimeoutExpired
  \/ \E a \in DOMAIN acceptors : ConsumeMessage(a)
  \/ Tick

SpecRate == InitRate /\ [][NextRate]_vars

(***************************************************************************)
(* Properties.                                                             *)
(***************************************************************************)
\* fd is still waiting on the queue of a RemoteAcceptor that is not deleted
InSomeQueue(fd) ==
  \E a \in DOMAIN acceptors :
    /\ acceptors[a].phase # "deleted"
    /\ \E i \in DOMAIN acceptors[a].queue :
         acceptors[a].queue[i].type = "conn" /\ acceptors[a].queue[i].fd = fd

\* how many connectionAccepted calls were made for fd, in the history cs
ReceivedBy(cs, fd) == IF fd \in DOMAIN cs THEN cs[fd].inl + cs[fd].dlv ELSE 0

PauseOps == {"pauseAccepting", "acceptConnectionPaused"}

\* C1: every descriptor a successful accept returned has met exactly one of
\* three fates: passed inline to one callback, enqueued on one
\* RemoteAcceptor queue, or closed by the listener; an enqueued descriptor
\* is consumed at most once.
C1_ExactlyOneFate ==
  \A fd \in DOMAIN conns :
    /\ conns[fd].inl + conns[fd].enq + conns[fd].closed = 1
    /\ conns[fd].dlv + conns[fd].exp <= conns[fd].enq

\* C2: a connection that was enqueued on a RemoteAcceptor queue is never
\* given up: it has been delivered to the callback, or closed on its
\* deadline, or it is still waiting on the queue of a live RemoteAcceptor.
C2_EnqueuedIsDeliveredOrExpired ==
  \A fd \in DOMAIN conns :
    conns[fd].enq = 1 =>
      \/ conns[fd].dlv + conns[fd].exp = 1
      \/ InSomeQueue(fd)

\* C3: between operations, each listening socket is registered for READ
\* exactly when accepting_ is set, callbacks_ is not empty and the backoff
\* timer is not armed.
C3_RegisteredIffAcceptingNonEmptyNoTimer ==
  Idle =>
    \A i \in DOMAIN sockets_ :
      sockets_[i].registered <=>
        (accepting_ /\ callbacks_ # <<>> /\ ~TimerArmed)

\* C4, as stated: once pauseAccepting() has returned, and until the next
\* primary-loop operation, no callback receives connectionAccepted.
C4_NoDeliveryAfterPause ==
  [][(lastOp \in PauseOps) =>
       (\A fd \in DOMAIN conns' : ReceivedBy(conns', fd) = ReceivedBy(conns, fd))]_vars

\* C4, amended: while accepting_ is false (from pauseAccepting(), also one
\* called inside a callback during a wake, until startAccepting()) no accept
\* wake is in progress, no connection is accepted and none is passed inline
\* or enqueued; only connections enqueued before the pause are still
\* delivered by the consumer loops.
C4_NoDispatchWhilePaused ==
  [][~accepting_ =>
       (/\ wake = NoWake
        /\ DOMAIN conns' = DOMAIN conns
        /\ \A fd \in DOMAIN conns :
             /\ conns'[fd].inl = conns[fd].inl
             /\ conns'[fd].enq = conns[fd].enq
             /\ conns'[fd].closed = conns[fd].closed
             /\ conns'[fd].dlv + conns'[fd].exp > conns[fd].dlv + conns[fd].exp =>
                  InSomeQueue(fd))]_vars

\* C4 witness: a callback paused the listener from inside connectionAccepted
\* and the wake has ended.
C4_Witness ==
  lastOp = "acceptConnectionPaused" /\ ~accepting_ /\ wake = NoWake /\ conns # <<>>

\* C5: accepting_ becomes true only in startAccepting() and false only in
\* pauseAccepting() or stopAccepting(); entering backoff, the timer expiry,
\* adding and removing callbacks leave it as it is.
C5_AcceptingSetByStartClearedByPauseStop ==
  [][/\ (accepting_' /\ ~accepting_) => lastOp' = "startAccepting"
     /\ (accepting_ /\ ~accepting_') =>
          lastOp' \in PauseOps \cup StopOps
     /\ (lastOp' # lastOp /\
         lastOp' \in {"acceptEMFILE", "backoffTimeoutExpired", "addAcceptCallback",
                      "addAcceptCallbackFailed", "removeAcceptCallback"}) =>
          accepting_' = accepting_]_vars

\* C5 witness: a backoff was entered and has ended, the last callback was
\* then removed, and accepting_ is still set.
C5_Witness ==
  /\ lastOp = "removeAcceptCallback"
  /\ accepting_ /\ callbacks_ = <<>>
  /\ events.backoffEnded = 1

\* C6: an armed backoff timer does not stay armed for ever (it expires, or
\* pauseAccepting()/stopAccepting() cancel it, unless the program has run into
\* undefined behaviour); when it expires with a non-empty table, timeoutMS
\* or more have passed since onBackoffStarted, every socket is registered
\* again, the timer is disarmed and onBackoffEnded is reported once; no
\* more backoffs end than were started.
C6_BackoffEndsAfterTimeout ==
  /\ TimerArmed ~> (~TimerArmed \/ ub)
  /\ [][(backoffTimeoutExpired /\ callbacks_ # <<>>) =>
          (/\ now >= events.startedAt + timeoutMS
           /\ AllRegistered'
           /\ ~TimerArmed'
           /\ events'.backoffEnded = events.backoffEnded + 1
           /\ events'.backoffStarted = events.backoffStarted)]_vars
  /\ [](events.backoffEnded <= events.backoffStarted)

\* C6 witness: the timer of a backoff has expired with callbacks installed,
\* and the sockets are registered again.
C6_Witness ==
  /\ lastOp = "backoffTimeoutExpired"
  /\ accepting_ /\ callbacks_ # <<>>
  /\ sockets_ # <<>> /\ AllRegistered
  /\ events.backoffStarted = 1 /\ events.backoffEnded = 1
  /\ now >= timeoutMS

\* C7: pauseAccepting() and stopAccepting() cancel an armed backoff timer:
\* while accepting_ is false the timer is not armed, so it cannot fire, and
\* no listening socket is registered.
C7_NotAcceptingNoTimerNoHandler ==
  ~accepting_ => ~TimerArmed /\ NoneRegistered

\* C7 witness: pauseAccepting() ran while the timer of the one backoff
\* episode was armed: the episode started, never ended, and is cancelled.
C7_Witness ==
  /\ lastOp = "pauseAccepting"
  /\ backoffTimeout_.alloc /\ ~TimerArmed
  /\ events.backoffStarted = 1 /\ events.backoffEnded = 0
  /\ sockets_ # <<>> /\ NoneRegistered

\* C8: when the timer expires and callbacks_ is empty, no socket is
\* registered, onBackoffEnded is still reported and accepting_ stays set;
\* from accepting with an empty table the sockets become registered only
\* by addAcceptCallback.
C8_ExpiryWithEmptyTable ==
  [][/\ (backoffTimeoutExpired /\ callbacks_ = <<>>) =>
          /\ NoneRegistered'
          /\ accepting_' = accepting_
          /\ events'.backoffEnded = events.backoffEnded + 1
     /\ (accepting_ /\ callbacks_ = <<>> /\ ~NoneRegistered') =>
          /\ lastOp' = "addAcceptCallback"
          /\ callbacks_' # <<>>]_vars

\* C8 witness: the timer has expired on an accepting listener whose last
\* callback had been removed during the backoff.
C8_Witness ==
  /\ lastOp = "backoffTimeoutExpired"
  /\ accepting_ /\ callbacks_ = <<>>
  /\ sockets_ # <<>> /\ NoneRegistered
  /\ events.backoffEnded = 1

\* C9: removing the last callback while accepting unregisters every socket
\* and keeps accepting_; adding the first callback while accepting
\* registers every socket; adding a callback while not accepting registers
\* none.
C9_LastRemoveFirstAdd ==
  [][/\ (lastOp' = "removeAcceptCallback" /\ accepting_ /\
         callbacks_ # <<>> /\ callbacks_' = <<>>) =>
          NoneRegistered' /\ accepting_'
     /\ (Len(callbacks_') = Len(callbacks_) + 1 /\ accepting_ /\ callbacks_ = <<>>) =>
          AllRegistered' /\ accepting_'
     /\ (Len(callbacks_') = Len(callbacks_) + 1 /\ ~accepting_) =>
          NoneRegistered' /\ ~accepting_']_vars

\* C9 witness: the last callback of an accepting listener with two sockets
\* has been removed.
C9_Witness ==
  /\ lastOp = "removeAcceptCallback"
  /\ accepting_ /\ callbacks_ = <<>>
  /\ Len(sockets_) = 2 /\ NoneRegistered

\* how many of the connections recorded in cs went to table entry i
RECURSIVE CountSlot(_, _)
CountSlot(cs, i) ==
  IF cs = <<>> THEN 0
  ELSE (IF Head(cs).slot = i THEN 1 ELSE 0) + CountSlot(Tail(cs), i)

\* every entry is a consumer and every connection so far was enqueued at
\* the first entry it was offered to: no queue was found full
ConsumersNeverFull ==
  /\ conns # <<>>
  /\ \A i \in DOMAIN callbacks_ : callbacks_[i].consumer # NoConsumer
  /\ \A fd \in DOMAIN conns : conns[fd].tried = 1 /\ conns[fd].enq = 1

\* with c0 the cursor before the first dispatch: connection k went to entry
\* (c0 + k) mod N, and after M >= N connections every entry has received
\* floor(M/N) or ceil(M/N) of them
RoundRobinSplit ==
  LET N == Len(callbacks_)
      M == Len(conns)
      c0 == conns[1].start
  IN  /\ \A k \in 0..(M - 1) : conns[k + 1].slot = (c0 + k) % N
      /\ M >= N =>
           \A i \in 0..(N - 1) :
             CountSlot(conns, i) \in
               {M \div N, (M \div N) + (IF M % N = 0 THEN 0 ELSE 1)}

\* C10, as stated: with N consumers whose queues never fill, no NAPI
\* routing and no add or remove, connection k goes to entry (c0 + k) mod N
\* and M >= N connections are split floor(M/N) or ceil(M/N) per consumer.
C10_RoundRobin == ConsumersNeverFull => RoundRobinSplit

\* C10, amended: the same, when in addition no accept error was dispatched
\* in between (dispatchError advances the same cursor).
C10_RoundRobinWithoutErrors ==
  (ConsumersNeverFull /\ ~events.acceptError) => RoundRobinSplit

\* C10 witness: two consumers, cursor 0, four connections and no error: the
\* first consumer has the first and the third, the second the other two.
C10_Witness ==
  /\ ConsumersNeverFull /\ ~events.acceptError
  /\ Len(callbacks_) = 2 /\ Len(conns) = 4
  /\ conns[1].start = 0
  /\ conns[1].target = 1 /\ conns[2].target = 2
  /\ conns[3].target = 1 /\ conns[4].target = 2

(***************************************************************************)
(* Ordering inside the consumer queues.                                    *)
(***************************************************************************)
\* the messages of a queue wait in the order the primary loop made them
QueueInOrder(q) ==
  \A i, j \in DOMAIN q :
    i < j => /\ Rank(q[i]) <= Rank(q[j])
             /\ (q[i].type = "conn" /\ q[j].type = "conn") => q[i].fd < q[j].fd

Executed(fd) == conns[fd].dlv + conns[fd].exp > 0

\* of two connections put on the same consumer, the later one is not
\* executed before the earlier one
ExecutedInAcceptOrder ==
  \A i, j \in DOMAIN conns :
    (/\ i < j
     /\ conns[i].enq = 1 /\ conns[j].enq = 1
     /\ conns[i].target = conns[j].target
     /\ Executed(j)) => Executed(i)

\* a consumer that takes a message takes the oldest one of its queue, and
\* only that connection's record changes
HeadExecuted ==
  \A a \in DOMAIN acceptors :
    (/\ acceptors[a].queue # <<>>
     /\ a \in DOMAIN acceptors'
     /\ acceptors'[a].queue = Tail(acceptors[a].queue)) =>
      LET msg == Head(acceptors[a].queue)
      IN  /\ \A k \in DOMAIN acceptors'[a].queue :
                Rank(msg) <= Rank(acceptors'[a].queue[k])
          /\ msg.type = "error" => conns' = conns
          /\ msg.type = "conn" =>
                /\ ~Executed(msg.fd)
                /\ conns'[msg.fd].dlv + conns'[msg.fd].exp = 1
                /\ \A k \in DOMAIN conns : k # msg.fd => conns'[k] = conns[k]

\* C11: for each consumer, connection and error messages are executed in
\* the order they were enqueued, and connections are dispatched in the order
\* they were accepted, in every interleaving of the primary loop, the
\* consumers and the clock.
C11_QueueFifo ==
  /\ [](\A a \in DOMAIN acceptors : QueueInOrder(acceptors[a].queue))
  /\ []ExecutedInAcceptOrder
  /\ [][HeadExecuted]_vars

\* two connections were put on one consumer while an error message waited
\* between them or behind them, and both connections were executed
C11_Witness ==
  \E a \in DOMAIN acceptors :
    /\ Len(acceptors[a].queue) = 2
    /\ acceptors[a].queue[1].type = "error"
    /\ acceptors[a].queue[2].type = "conn"
    /\ Len(conns) = 2
    /\ conns[1].enq = 1 /\ conns[1].target = a /\ Executed(1)
(***************************************************************************)
(* Dispatch over remote consumers.                                         *)
(***************************************************************************)
AllRemote == \A i \in DOMAIN callbacks_ : ~IsInline(callbacks_[i])

\* the table entry that is j places after the cursor
EntryAfterCursor(j) == callbacks_[((callbackIndex_ + j) % Len(callbacks_)) + 1]

\* the queue of that entry is below the configured depth
HasRoom(j) == Len(acceptors[EntryAfterCursor(j).consumer].queue) < config.maxMsgs

\* a connection was accepted and went through dispatchSocket in this step
Dispatched ==
  /\ Len(conns') = Len(conns) + 1
  /\ lastOp' = "acceptConnection"
  /\ ~ub'

ExecutesConn(a) ==
  /\ acceptors[a].queue # <<>>
  /\ Head(acceptors[a].queue).type = "conn"
  /\ a \in DOMAIN acceptors'
  /\ acceptors'[a].queue = Tail(acceptors[a].queue)

\* C13: a connection message with a non-zero deadline that is executed after
\* the deadline is closed and reported as dropped and is not delivered; one
\* executed at or before its deadline, or with a zero deadline, is delivered
\* and not closed.
C13_DeadlineDecidesDelivery ==
  [][\A a \in DOMAIN acceptors :
       ExecutesConn(a) =>
         LET msg == Head(acceptors[a].queue)
             old == conns[msg.fd]
             new == conns'[msg.fd]
         IN  IF msg.deadline # 0 /\ now > msg.deadline
               THEN /\ new.exp = old.exp + 1
                    /\ new.dlv = old.dlv
               ELSE /\ new.dlv = old.dlv + 1
                    /\ new.exp = old.exp]_vars

\* with a queue timeout set, one connection was executed after its deadline
\* and dropped, and another, accepted later, was executed in time and
\* delivered
C13_Witness ==
  /\ config.queueTimeout # 0
  /\ Len(conns) = 2
  /\ conns[1].enq = 1 /\ conns[1].exp = 1 /\ conns[1].dlv = 0
  /\ conns[2].enq = 1 /\ conns[2].dlv = 1 /\ conns[2].exp = 0
  /\ conns[2].t > 0

\* C14: the milliseconds reported with a drop for an exceeded deadline are
\* the time the message spent in the queue, from enqueue to execution.
C14_ReportsMeasuredQueueTime ==
  \A fd \in DOMAIN conns :
    conns[fd].exp = 1 => conns[fd].reported = conns[fd].waited
(***************************************************************************)
(* stopAccepting.                                                          *)
(***************************************************************************)
\* C15: stopAccepting unregisters and closes the sockets in strictly reverse
\* order of their creation, and leaves the listener without a socket.
C15_ClosesInReverseOrder ==
  [][stopAccepting =>
       LET closed == events'.lastClosed
       IN  /\ Len(closed) = Len(sockets_)
           /\ \A i \in DOMAIN sockets_ :
                /\ i < Len(sockets_) => sockets_[i].id < sockets_[i + 1].id
                /\ closed[Len(sockets_) + 1 - i] = sockets_[i].id
           /\ \A i, j \in DOMAIN closed : i < j => closed[i] > closed[j]
           /\ sockets_' = <<>>]_vars

\* three sockets, registered for accepting, were closed by one stopAccepting
C15_Witness ==
  /\ lastOp = "stopAccepting"
  /\ events.lastClosed = <<3, 2, 1>>
  /\ sockets_ = <<>>

\* C16: a stopAccepting that follows a stopAccepting closes nothing, tells
\* no callback, schedules no stop and leaves the state as it was.
C16_SecondStopChangesNothing ==
  [][(stopAccepting /\ lastOp \in StopOps) =>
       /\ events'.lastClosed = <<>>
       /\ events'.lastStopped = <<>>
       /\ acceptors' = acceptors
       /\ UNCHANGED <<accepting_, sockets_, callbacks_, callbackIndex_,
                      localCallbackIndex_, napiIdToCallback_, backoffTimeout_,
                      acceptRate_, lastAccepTimestamp_, numDroppedConnections_,
                      config, now, conns, wake, ub>>]_vars

\* stopAccepting ran twice in a row after a listener with sockets and a
\* remote consumer had been set up
C16_Witness ==
  /\ lastOp = "stopAcceptingAgain"
  /\ events.lastClosed = <<>> /\ events.lastStopped = <<>>
  /\ sockets_ = <<>> /\ callbacks_ = <<>> /\ ~accepting_
  /\ \E a \in DOMAIN acceptors : acceptors[a].stop

\* C17: stopAccepting tells every callback of the table exactly once, with
\* acceptStopped inline for the entries without a consumer and through the
\* consumer's stop for the others; the table is already empty when the
\* inline calls run, and afterwards the table and the NAPI map are empty and
\* the local index is unset.
C17_StopTellsEveryCallbackOnce ==
  [][stopAccepting =>
       LET told == events'.lastStopped
       IN  /\ Len(told) = Len(callbacks_)
           /\ \A i \in DOMAIN callbacks_ :
                /\ told[i].callback = callbacks_[i].callback
                /\ told[i].inline = (callbacks_[i].consumer = NoConsumer)
                /\ told[i].table = 0
                /\ callbacks_[i].consumer # NoConsumer =>
                     /\ ~acceptors[callbacks_[i].consumer].stop
                     /\ acceptors'[callbacks_[i].consumer].stop
           /\ \A a \in DOMAIN acceptors :
                (\A i \in DOMAIN callbacks_ : callbacks_[i].consumer # a) =>
                  acceptors'[a] = acceptors[a]
           /\ callbacks_' = <<>>
           /\ napiIdToCallback_' = EmptyMap
           /\ localCallbackIndex_' = -1]_vars

\* a table with an inline callback and a remote consumer was stopped
C17_Witness ==
  /\ lastOp = "stopAccepting"
  /\ Len(events.lastStopped) = 2
  /\ events.lastStopped[1].inline /\ ~events.lastStopped[2].inline
  /\ \E a \in DOMAIN acceptors : acceptors[a].stop /\ acceptors[a].phase # "deleted"
  /\ callbacks_ = <<>>
(***************************************************************************)
(* removeAcceptCallback and addAcceptCallback.                             *)
(***************************************************************************)
\* a removeAcceptCallback that found its entry
Removes ==
  /\ \E cb \in Callbacks, eb \in AddTargets : removeAcceptCallback(cb, eb)
  /\ Len(callbacks_') = Len(callbacks_) - 1

\* the index (from 0) of the entry that the step erased
RemovedIndex ==
  CHOOSE n \in 0..(Len(callbacks_) - 1) :
    /\ callbacks_' = RemoveAt(callbacks_, n + 1)
    /\ \A m \in 0..(n - 1) : callbacks_' # RemoveAt(callbacks_, m + 1)

\* C18: when the entry at index n is removed, the cursor is decremented if
\* n is less than the cursor, and otherwise reset to 0 if it points past the
\* end and left alone if not; so the entry that was next is still next,
\* unless it was the one removed, and then its successor, wrapping to
\* index 0, is next.
C18_CursorFollowsItsEntry ==
  [][Removes =>
       LET n == RemovedIndex
           c == callbackIndex_
           size == Len(callbacks_)
       IN  /\ callbackIndex_' = IF n < c THEN c - 1
                                ELSE IF c >= size - 1 THEN 0 ELSE c
           /\ (c < size /\ size > 1) =>
                callbacks_'[callbackIndex_' + 1] =
                  IF n # c THEN callbacks_[c + 1]
                  ELSE callbacks_[((c + 1) % size) + 1]]_vars

\* the first of three entries was removed while the cursor was at the
\* third: the cursor moved back with it
C18_Witness ==
  /\ lastOp = "removeAcceptCallback"
  /\ callbacks_ = SubSeq(TableEntries(CursorTable), 2, 3)
  /\ callbackIndex_ = 1

\* the request (callback, eventBase) matches no entry of the table
NotInTable(callback, eventBase) ==
  \A i \in DOMAIN callbacks_ :
    \/ callbacks_[i].callback # callback
    \/ (eventBase # NullEventBase /\ callbacks_[i].eventBase # eventBase)

\* C19: removeAcceptCallback for a pair that matches no entry (a null loop
\* matches any loop) fails with the not-found error and leaves the table,
\* the NAPI map, the cursor, the registration of the sockets and accepting_
\* as they were, and no acceptStopped is delivered.
C19_RemoveNotFoundChangesNothing ==
  [][\A cb \in Callbacks, eb \in AddTargets :
       (removeAcceptCallback(cb, eb) /\ NotInTable(cb, eb)) =>
         /\ lastOp' = "removeAcceptCallbackNotFound"
         /\ UNCHANGED <<callbacks_, napiIdToCallback_, callbackIndex_,
                        localCallbackIndex_, sockets_, accepting_,
                        backoffTimeout_, acceptors, events>>]_vars

\* a callback registered on one loop was asked to be removed from another
\* loop, while the listener was accepting with its sockets registered
C19_Witness ==
  /\ lastOp = "removeAcceptCallbackNotFound"
  /\ callbacks_ # <<>>
  /\ accepting_ /\ sockets_ # <<>> /\ AllRegistered

\* C20: when the RemoteAcceptor cannot be set up, addAcceptCallback fails,
\* the table is as it was before the call, and the sockets are not
\* registered by the call, also when it would have added the first callback
\* while accepting_ is set.
C20_FailedAddRollsBack ==
  [][\A cb \in Callbacks, eb \in AddTargets :
       addAcceptCallback(cb, eb, TRUE) =>
         /\ lastOp' = "addAcceptCallbackFailed"
         /\ UNCHANGED <<callbacks_, sockets_, accepting_, acceptors,
                        callbackIndex_, localCallbackIndex_>>]_vars

\* the failed call would have added the first callback of an accepting
\* listener: the sockets are still unregistered
C20_Witness ==
  /\ lastOp = "addAcceptCallbackFailed"
  /\ accepting_ /\ callbacks_ = <<>>
  /\ sockets_ # <<>> /\ NoneRegistered
(***************************************************************************)
(* The NAPI map.                                                           *)
(***************************************************************************)
\* C21: after addAcceptCallback for a loop that reports a NAPI id, the map
\* entry of that id is the callback just added, with its loop and its
\* RemoteAcceptor, also when another callback with the same id was added
\* before.
C21_NapiEntryIsLatest ==
  (lastOp = "addAcceptCallback" /\ callbacks_ # <<>>) =>
    LET info == callbacks_[Len(callbacks_)]
        napiId == IF info.eventBase = NullEventBase THEN NoNapi
                  ELSE config.napi[info.eventBase]
    IN  napiId # NoNapi =>
          /\ napiId \in DOMAIN napiIdToCallback_
          /\ napiIdToCallback_[napiId] = info
(***************************************************************************)
(* Failed accepts.                                                         *)
(***************************************************************************)
\* accept() failed with errno err in this step, whatever rand() returned
AcceptFails(err) ==
  \E rnd \in RateRands, allocFail \in BOOLEAN, schedFail \in BOOLEAN :
    acceptFailed(err, rnd, allocFail, schedFail)

\* the timer could be allocated and scheduled in this step
TimerWorked == events'.backoffError = events.backoffError

\* C22: when accept fails with EMFILE or ENFILE, the listener enters backoff
\* (the timer armed for 1000 ms, every socket unregistered, the start of the
\* backoff notified, provided the timer can be allocated and scheduled), the
\* error goes through dispatchError, and the wake ends.
C22_EmfileEntersBackoff ==
  [][AcceptFails("EMFILE") =>
       /\ wake' = NoWake
       /\ callbackIndex_' = dispatchError.index
       /\ acceptors' = dispatchError.acceptors
       /\ events'.backoffStarted + events'.backoffError =
            events.backoffStarted + events.backoffError + 1
       /\ TimerWorked =>
            /\ backoffTimeout_'.scheduled
            /\ backoffTimeout_'.expiry = now + timeoutMS
            /\ \A i \in DOMAIN sockets_' : ~sockets_'[i].registered
            /\ events'.backoffStarted = events.backoffStarted + 1]_vars
\* C23: when accept fails with an errno other than EAGAIN, EMFILE and
\* ENFILE, the error goes through dispatchError and the loop goes on with
\* its next iteration in the same wake, up to maxAcceptAtOnce_, with the
\* sockets still registered.
C23_OtherErrnoContinues ==
  [][AcceptFails("EOTHER") =>
       /\ callbackIndex_' = dispatchError.index
       /\ acceptors' = dispatchError.acceptors
       /\ sockets_' = sockets_
       /\ wake.n + 1 < maxAcceptAtOnce_ =>
            wake' = [wake EXCEPT !.n = @ + 1]]_vars
\* C24: when the backoff timer cannot be allocated or scheduled, the error
\* of the backoff is notified, no socket is unregistered, no start of a
\* backoff is notified, and accepting_ stays as it is.
C24_BackoffErrorKeepsAccepting ==
  [][\A rnd \in RateRands, allocFail \in BOOLEAN, schedFail \in BOOLEAN :
       (/\ allocFail \/ schedFail
        /\ acceptFailed("EMFILE", rnd, allocFail, schedFail)
        /\ lastOp' = "acceptEMFILE") =>
         /\ events'.backoffError = events.backoffError + 1
         /\ events'.backoffStarted = events.backoffStarted
         /\ sockets_' = sockets_
         /\ accepting_' = accepting_
         /\ ~backoffTimeout_'.scheduled]_vars

\* accept failed with EMFILE and the timer could not be set up: the sockets
\* are still registered and the listener is accepting
C24_Witness ==
  /\ lastOp = "acceptEMFILE"
  /\ events.backoffError = 1 /\ events.backoffStarted = 0
  /\ accepting_ /\ sockets_ # <<>> /\ AllRegistered
  /\ ~backoffTimeout_.scheduled
\* accept() was called in this step
AcceptCalled ==
  \/ \E rnd \in RateRands, napi \in SockNapis, cbPause \in BOOLEAN :
       acceptConnection(rnd, napi, cbPause)
  \/ \E err \in {"EAGAIN", "EMFILE", "EOTHER"} : AcceptFails(err)

\* C25: one wake of a socket calls accept at most maxAcceptAtOnce_ times,
\* counting the accepts that end in a rate-limit drop, in a dispatch or in a
\* drop with all queues full, and then returns to the event loop.
C25_AtMostMaxAcceptsPerWake ==
  /\ [](wake # NoWake => wake.n < maxAcceptAtOnce_)
  /\ [][AcceptCalled =>
          /\ wake # NoWake /\ wake.n < maxAcceptAtOnce_
          /\ \/ wake' = NoWake
             \/ wake' = [wake EXCEPT !.n = @ + 1]]_vars
  /\ [][(wake # NoWake /\ wake' # NoWake /\ wake' # wake) => AcceptCalled]_vars

\* a wake ended because it had made maxAcceptAtOnce_ accepts, the last one a
\* connection dropped with the queue full, while the listener could have
\* gone on
C25_Witness ==
  /\ wake = NoWake
  /\ lastOp = "acceptConnection"
  /\ accepting_ /\ callbacks_ # <<>> /\ AllRegistered
  /\ Len(conns) = 2
  /\ conns[1].enq = 1 /\ conns[2].closed = 1 /\ conns[2].t = conns[1].t
(***************************************************************************)
(* The lifecycle specification: callbacks are registered inline, on a      *)
(* consumer loop and on the primary loop itself, connections and accept    *)
(* errors are dispatched, and the callbacks are removed again, with the    *)
(* start and stop tasks of the RemoteAcceptors run at any later time.      *)
(***************************************************************************)
MaxLifeAcceptors == 2   \* RemoteAcceptors in the lifecycle specification
MaxLifeConns == 1       \* connections accepted in the lifecycle specification

LifeConfig ==
  [speed |-> 0, queueTimeout |-> 0, napi |-> NoNapiIds,
   maxSockets |-> 1, maxAcceptors |-> MaxLifeAcceptors,
   maxConns |-> MaxLifeConns, maxBackoffs |-> 0, maxTicks |-> 0,
   maxMsgs |-> MaxMsgsInQueue, history |-> FALSE, life |-> TRUE,
   adds |-> {<<"cbA", PrimaryEventBase>>, <<"cbB", "eb1">>,
             <<"cbB", NullEventBase>>}]

InitLife == InitWith(LifeConfig)

NextLife ==
  \/ bind(1)
  \/ startAccepting
  \/ stopAccepting
  \/ \E cb \in Callbacks, eb \in AddTargets : addAcceptCallback(cb, eb, FALSE)
  \/ \E cb \in Callbacks, eb \in AddTargets : removeAcceptCallback(cb, eb)
  \/ \E h \in DOMAIN sockets_ : handlerReady(h)
  \/ acceptConnection(0, NoNapi, FALSE)
  \/ \E err \in {"EAGAIN", "EOTHER"} : acceptFailed(err, 0, FALSE, FALSE)
  \/ \E a \in DOMAIN acceptors : RunStart(a)
  \/ \E a \in DOMAIN acceptors : ConsumeMessage(a)
  \/ \E a \in DOMAIN acceptors : RunStop(a)

SpecLife == InitLife /\ [][NextLife]_vars

\* the RemoteAcceptors of cb whose start task, or stop task, has not run yet
PendingStarts(cb) ==
  {a \in DOMAIN acceptors :
     acceptors[a].callback = cb /\ acceptors[a].phase = "starting"}
PendingStops(cb) ==
  {a \in DOMAIN acceptors :
     acceptors[a].callback = cb /\ acceptors[a].stop
       /\ acceptors[a].phase # "deleted"}

\* C26: every callback gets acceptStarted once per registration and before
\* any connectionAccepted or acceptError, and acceptStopped once per removal
\* (by removeAcceptCallback or stopAccepting) with no connectionAccepted or
\* acceptError after it, whether it runs inline or on a consumer loop.
C26_CallbackLifecycle ==
  \A cb \in Callbacks :
    LET l == events.life[cb]
    IN  /\ l.started <= l.regs
        /\ l.ends <= l.regs
        /\ l.stopped <= l.ends
        /\ PendingStarts(cb) = {} => l.started = l.regs
        /\ PendingStops(cb) = {} => l.stopped = l.ends
        /\ ~l.early
        /\ ~l.late
(***************************************************************************)
(* The bind specification: bind(ipAddresses, port) and bind(port) with     *)
(* the system calls that can fail.  A handler of sockets_ carries its      *)
(* address family and the port it is bound to.                             *)
(***************************************************************************)
MaxBindOps == 2        \* bind calls in the bind specification
MaxBindAddresses == 2  \* addresses given to one bind(ipAddresses, port)

kNumTries == 25        \* bind(port): const int kNumTries = 25
AF_INET6 == "AF_INET6"
AF_INET == "AF_INET"
Families == {AF_INET6, AF_INET}
BindPorts == {0, 80}
EphemeralPorts == {49152, 49153}

\* sockets_.emplace_back(eventBase_, fd, this, address.getFamily())
BoundHandler(fd, family, port) ==
  [id |-> fd, registered |-> FALSE, family |-> family, port |-> port]

HandlerIds(socks) == {socks[i].id : i \in DOMAIN socks}

BindState(socks, opened, closed, nextFd, tries, error) ==
  [sockets |-> socks, opened |-> opened, closed |-> closed, nextFd |-> nextFd,
   tries |-> tries, error |-> error]

\* the port the kernel binds a socket to when asked for port
ActualPort(port, eph) == IF port = 0 THEN eph ELSE port

\* bindSocket(fd, address, isExistingSocket = false, ""): ok tells whether
\* netops::bind succeeds
bindSocket(st, fd, family, port, eph, ok) ==
  IF ok
    THEN [st EXCEPT !.sockets =
                      Append(@, BoundHandler(fd, family, ActualPort(port, eph)))]
    ELSE [st EXCEPT !.closed = @ \cup {fd}, !.error = TRUE]

\* the loop of bind(ipAddresses, port): createSocket, then bindSocket, for
\* each address in turn; the bind of address number failAt fails (0: none)
RECURSIVE BindEach(_, _, _, _, _, _)
BindEach(st, families, k, port, eph, failAt) ==
  IF k > Len(families) \/ st.error THEN st
  ELSE LET fd == st.nextFd
           created == [st EXCEPT !.opened = @ \cup {fd}, !.nextFd = @ + 1]
       IN  BindEach(bindSocket(created, fd, families[k], port, eph, k # failAt),
                    families, k + 1, port, eph, failAt)

BindLog(op, port, families, st) ==
  [op |-> op, port |-> port, families |-> families, opened |-> st.opened,
   closed |-> st.closed, before |-> sockets_, tries |-> st.tries,
   error |-> st.error, ops |-> events.bind.ops + 1, nextFd |-> st.nextFd]

bindAddresses(families, port, eph, failAt) ==
  /\ Idle
  /\ events.bind.ops < MaxBindOps
  /\ families # <<>>
  /\ LET st == BindEach(BindState(sockets_, {}, {}, events.bind.nextFd, 1, FALSE),
                        families, 1, port, eph, failAt)
     IN  /\ sockets_' = st.sockets
         /\ events' = [events EXCEPT
                         !.bind = BindLog("bindAddresses", port,
                                          {families[i] : i \in DOMAIN families},
                                          st)]
         /\ lastOp' = IF st.error THEN "bindFailed" ELSE "bind"
  /\ UNCHANGED <<accepting_, callbacks_, callbackIndex_, localCallbackIndex_,
                 napiIdToCallback_, backoffTimeout_, acceptRate_,
                 lastAccepTimestamp_, numDroppedConnections_, config, now,
                 acceptors, conns, wake, ub>>

\* setupAddress(res) of bind(port): netops::socket, setupSocket, netops::bind,
\* sockets_.emplace_back; a family the kernel does not support is skipped,
\* and a failed bind throws with the new socket left as it is
setupAddress(st, family, supported, port, eph, ok) ==
  IF family \notin supported THEN st
  ELSE LET fd == st.nextFd
           created == [st EXCEPT !.opened = @ \cup {fd}, !.nextFd = @ + 1]
       IN  IF ok
             THEN [created EXCEPT !.sockets =
                     Append(@, BoundHandler(fd, family, ActualPort(port, eph)))]
             ELSE [created EXCEPT !.error = TRUE]

\* the for (int tries = 1; true; tries++) loop of bind(port); fails: how
\* many more attempts find the port taken when the AF_INET socket is bound
RECURSIVE BindTries(_, _, _, _, _, _, _)
BindTries(st, tries, port, supported, eph, v6ok, fails) ==
  LET v6 == setupAddress([st EXCEPT !.tries = tries], AF_INET6, supported,
                         port, eph, v6ok)
      sport == IF Len(v6.sockets) = 1 /\ port = 0
                 THEN v6.sockets[Len(v6.sockets)].port ELSE port
      v4 == setupAddress(v6, AF_INET, supported, sport, eph, fails = 0)
  IN  IF v6.error THEN v6
      ELSE IF ~v4.error THEN v4
      ELSE IF port = 0 /\ v6.sockets # <<>> /\ tries # kNumTries
        THEN BindTries([v4 EXCEPT !.closed = @ \cup HandlerIds(v6.sockets),
                                  !.sockets = <<>>, !.error = FALSE],
                       tries + 1, port, supported, eph, v6ok, fails - 1)
        ELSE v4

\* if (sockets_.empty()) throw std::runtime_error(...)
NoneBound(st) == IF st.sockets = <<>> THEN [st EXCEPT !.error = TRUE] ELSE st

bindPort(port, supported, eph, v6ok, fails) ==
  /\ Idle
  /\ events.bind.ops < MaxBindOps
  /\ LET st == NoneBound(
                 BindTries(BindState(sockets_, {}, {}, events.bind.nextFd, 1, FALSE),
                           1, port, supported, eph, v6ok, fails))
     IN  /\ sockets_' = st.sockets
         /\ events' = [events EXCEPT
                         !.bind = BindLog("bindPort", port, supported, st)]
         /\ lastOp' = IF st.error THEN "bindFailed" ELSE "bind"
  /\ UNCHANGED <<accepting_, callbacks_, callbackIndex_, localCallbackIndex_,
                 napiIdToCallback_, backoffTimeout_, acceptRate_,
                 lastAccepTimestamp_, numDroppedConnections_, config, now,
                 acceptors, conns, wake, ub>>

BindConfig ==
  [speed |-> 0, queueTimeout |-> 0, napi |-> NoNapiIds,
   maxSockets |-> 0, maxAcceptors |-> 0, maxConns |-> 0, maxBackoffs |-> 0,
   maxTicks |-> 0, maxMsgs |-> MaxMsgsInQueue, history |-> FALSE,
   life |-> FALSE, adds |-> {}]

InitBind == InitWith(BindConfig)

AddressLists ==
  UNION {[1..n -> Families] : n \in 1..MaxBindAddresses}
SupportedFamilies == {Families, {AF_INET6}, {AF_INET}}
BindFailures == {0, 1, kNumTries - 1, kNumTries}

NextBind ==
  \/ \E families \in AddressLists, port \in BindPorts, eph \in EphemeralPorts,
        failAt \in 0..MaxBindAddresses :
       bindAddresses(families, port, eph, failAt)
  \/ \E port \in BindPorts, supported \in SupportedFamilies,
        eph \in EphemeralPorts, v6ok \in BOOLEAN, fails \in BindFailures :
       bindPort(port, supported, eph, v6ok, fails)

SpecBind == InitBind /\ [][NextBind]_vars

\* the descriptors the last bind operation created that are neither closed
\* nor held by a handler of sockets_
BindLeaked == (events.bind.opened \ events.bind.closed) \ HandlerIds(sockets_)

\* C27: a bind(ipAddresses, port) that fails with a system error has closed
\* every socket it created, and the listener holds none of them: sockets_ is
\* as it was before the call.
C27_FailedBindClosesItsSockets ==
  (events.bind.op = "bindAddresses" /\ events.bind.error) =>
    /\ events.bind.opened \subseteq events.bind.closed
    /\ HandlerIds(sockets_) \cap events.bind.opened = {}
    /\ sockets_ = events.bind.before

\* bind(0) was the last call, on a host with both families and a listener
\* that had no socket
BindZeroDualStack ==
  /\ events.bind.op = "bindPort"
  /\ events.bind.port = 0
  /\ events.bind.families = Families
  /\ events.bind.before = <<>>

\* C28: bind(0) on a dual-stack host makes at most 25 attempts; every
\* socket opened in an attempt whose IPv4 bind failed is closed; on success
\* the listener owns exactly two handlers, AF_INET6 then AF_INET, bound to
\* the same non-zero port.
C28_BindZeroRetries ==
  BindZeroDualStack =>
    /\ events.bind.tries <= kNumTries
    /\ events.bind.tries > 1 => BindLeaked = {}
    /\ ~events.bind.error =>
         /\ Len(sockets_) = 2
         /\ sockets_[1].family = AF_INET6
         /\ sockets_[2].family = AF_INET
         /\ sockets_[1].port = sockets_[2].port
         /\ sockets_[1].port # 0

RateInRange(r) == 0 < r.num /\ r.num <= r.den

\* std::max<int64_t>(0, nowMs - lastAccepTimestamp_)
SinceLastAccept ==
  IF now > lastAccepTimestamp_ THEN now - lastAccepTimestamp_ ELSE 0

\* the rate times (1 + speed * dt), at most 1
Recovered(r, dt) ==
  LET n == r.num * (SpeedUnit + config.speed * dt)
      d == r.den * SpeedUnit
  IN  IF ~RateBelowOne(r) \/ n >= d THEN RateOne ELSE Fraction(n, d)

\* nine tenths of the rate
NineTenths(r) == Fraction(9 * r.num, 10 * r.den)

\* the accept of this step was dropped because every queue was full
QueueWasFull ==
  /\ lastOp' = "acceptConnection"
  /\ Len(conns') = Len(conns) + 1
  /\ conns'[Len(conns')].closed = 1

RateLimitOps == {"acceptRateLimited", "acceptFailedRateLimited"}

\* C29: the rate is always in (0, 1]; an accept multiplies a rate below 1 by
\* 1 + speed * dt, clamped at 1; a queue-full multiplies it by 0.9 and only
\* with a positive speed; nothing else changes it.  With speed 0 the rate
\* stays 1 and the rate limiter rejects nothing.
C29_RateStaysInUnitInterval ==
  /\ [](RateInRange(acceptRate_))
  /\ [][AcceptCalled =>
          \/ acceptRate_' = Recovered(acceptRate_, SinceLastAccept)
          \/ /\ config.speed > 0
             /\ QueueWasFull
             /\ acceptRate_' = NineTenths(Recovered(acceptRate_, SinceLastAccept))]_vars
  /\ [][(acceptRate_' # acceptRate_) => AcceptCalled]_vars
  /\ [][(QueueWasFull /\ config.speed > 0) =>
          acceptRate_' = NineTenths(Recovered(acceptRate_, SinceLastAccept))]_vars
  /\ [](config.speed = 0 =>
          /\ acceptRate_ = RateOne
          /\ lastOp \notin RateLimitOps)

\* with a positive speed the rate was cut at a full queue and is still
\* below 1 after a later accept has raised it
C29_Witness ==
  /\ config.speed > 0
  /\ RateBelowOne(acceptRate_)
  /\ now > 0
  /\ lastAccepTimestamp_ = now
  /\ \E i \in DOMAIN conns : conns[i].closed = 1 /\ conns[i].tried = 1 /\ conns[i].t < now

\* the gaps between two accepts that the clock of the model can show
Dts == {k * TickMs : k \in 0..MaxRateTicks}

RateLE(a, b) == a.num * b.den <= b.num * a.den

\* rand() passes the test against rate r
Admits(rnd, r) == ~RateBelowOne(r) \/ ~RandRejects(rnd, r)

\* C30: with a positive speed and no queue-full, the rate after the update
\* of an accept, and with it the set of rand() values that are admitted, is
\* non-decreasing in the time since the previous accept; an accept never
\* lowers the rate, and an accept whose updated rate reaches 1 is admitted.
C30_RecoveryMonotoneInDt ==
  /\ []((config.speed > 0 /\ RateBelowOne(acceptRate_)) =>
          \A d1 \in Dts, d2 \in Dts :
            d1 <= d2 =>
              LET r1 == RateRecover(acceptRate_, config.speed, d1)
                  r2 == RateRecover(acceptRate_, config.speed, d2)
              IN  /\ RateLE(r1, r2)
                  /\ \A rnd \in RateRands : Admits(rnd, r1) => Admits(rnd, r2))
  /\ [][(AcceptCalled /\ config.speed > 0 /\ ~QueueWasFull) =>
          RateLE(acceptRate_, acceptRate_')]_vars
  /\ [][(AcceptCalled /\ config.speed > 0
           /\ Recovered(acceptRate_, SinceLastAccept) = RateOne) =>
          lastOp' \notin RateLimitOps]_vars

\* an accept made a tick after the previous one raised a rate below 1
\* without reaching 1, and the connection was admitted and enqueued
C30_Witness ==
  /\ config.speed > 0
  /\ RateBelowOne(acceptRate_)
  /\ lastOp = "acceptConnection"
  /\ now > 0
  /\ lastAccepTimestamp_ = now
  /\ Len(conns) = 1
  /\ conns[1].enq = 1
  /\ conns[1].t = now

(***************************************************************************)
(* Error dispatch.                                                         *)
(***************************************************************************)
\* the entry dispatchError visits k entries after the cursor
Visited(k) == callbacks_[((callbackIndex_ + k) % Len(callbacks_)) + 1]

\* the entry takes an error: inline, or its queue has room
TakesError(info) ==
  \/ IsInline(info)
  \/ Len(acceptors[info.consumer].queue) < maxNumMsgsInQueue_

\* how many entries are visited before one takes the error; Len(callbacks_)
\* when none does
RECURSIVE VisitsBeforeTaker(_)
VisitsBeforeTaker(k) ==
  IF k >= Len(callbacks_) THEN k
  ELSE IF TakesError(Visited(k)) THEN k ELSE VisitsBeforeTaker(k + 1)

QueuesUnchanged(except) ==
  \A a \in DOMAIN acceptors :
    a # except => acceptors'[a].queue = acceptors[a].queue

\* C34: dispatchError gives an accept error to at most one callback: the
\* first entry in cursor order that is inline (acceptError called at once) or
\* whose queue has room (an ErrorMessage appended to it); when a full pass
\* finds every queue full the error is discarded and the call returns.
C34_ErrorToFirstTaker ==
  [][(AcceptFails("EOTHER") /\ lastOp' = "acceptError"
        /\ callbackIndex_ < Len(callbacks_)) =>
       LET k == VisitsBeforeTaker(0)
           err == events'.lastError
       IN  /\ ~ub'
           /\ err.inl + err.enq <= 1
           /\ IF k >= Len(callbacks_)
                THEN /\ err.inl = 0 /\ err.enq = 0
                     /\ err.tried = Len(callbacks_)
                     /\ QueuesUnchanged(NoConsumer)
                ELSE /\ err.tried = k + 1
                     /\ IF IsInline(Visited(k))
                          THEN /\ err.inl = 1 /\ err.enq = 0
                               /\ QueuesUnchanged(NoConsumer)
                          ELSE /\ err.inl = 0 /\ err.enq = 1
                               /\ acceptors'[Visited(k).consumer].queue =
                                    Append(acceptors[Visited(k).consumer].queue,
                                           ErrorMessage)
                               /\ QueuesUnchanged(Visited(k).consumer)]_vars

\* an error passed a full queue and was given inline to the second entry
C34_Witness ==
  /\ lastOp = "acceptError"
  /\ events.lastError.tried = 2
  /\ events.lastError.inl = 1
  /\ \E a \in DOMAIN acceptors :
       Len(acceptors[a].queue) = maxNumMsgsInQueue_

\* C35: the reject step of the rate limiter acts on accepted connections
\* only: numDroppedConnections_ grows only in a step that closes an accepted
\* descriptor, and a failed accept ends in the accept-error path (return on
\* EAGAIN, backoff on EMFILE, dispatchError) whatever the rate is.
C35_RejectOnlyAccepted ==
  /\ [][(numDroppedConnections_' # numDroppedConnections_) =>
          /\ numDroppedConnections_' = numDroppedConnections_ + 1
          /\ Len(conns') = Len(conns) + 1
          /\ conns'[Len(conns')].closed = 1]_vars
  /\ [][\A err \in {"EAGAIN", "EMFILE", "EOTHER"} :
          AcceptFails(err) =>
            /\ lastOp' = (IF err = "EAGAIN" THEN "acceptEAGAIN"
                          ELSE IF err = "EMFILE" THEN "acceptEMFILE"
                          ELSE "acceptError")
            /\ wake' = NoWake]_vars

\* the entry at the cursor is remote with a full queue, and the entry after
\* it is an inline entry without RemoteAcceptor
FullThenInline ==
  /\ Len(callbacks_) > 1
  /\ callbackIndex_ < Len(callbacks_)
  /\ LET first == Visited(0)
         second == Visited(1)
     IN  /\ first.consumer # NoConsumer
         /\ ~IsInline(first)
         /\ Len(acceptors[first.consumer].queue) >= maxNumMsgsInQueue_
         /\ second.eventBase = NullEventBase
         /\ second.consumer = NoConsumer

\* C36: when the queue of the remote entry at the cursor is full and the
\* next entry is inline, dispatchSocket does not try to enqueue on the inline
\* entry: the connection is handed to that callback synchronously.
C36_InlineAfterFullQueue ==
  [][((\E rnd \in Rands, napi \in SockNapis, cbPause \in BOOLEAN :
         acceptConnection(rnd, napi, cbPause))
      /\ FullThenInline /\ lastOp' # "acceptRateLimited") =>
       /\ ~ub'
       /\ conns'[Len(conns')].inl = 1
       /\ conns'[Len(conns')].enq = 0
       /\ conns'[Len(conns')].closed = 0]_vars

\* C37: whenever callbacks_ is not empty, callbackIndex_ is an index of it.
C37_CursorInsideTable ==
  callbacks_ # <<>> => (0 <= callbackIndex_ /\ callbackIndex_ < Len(callbacks_))

\* C38: when localCallbackIndex_ is set, it is an index of callbacks_ and the
\* entry there is the one registered with the primary EventBase.
C38_LocalIndexIsPrimaryEntry ==
  localCallbackIndex_ >= 0 =>
    /\ localCallbackIndex_ < Len(callbacks_)
    /\ callbacks_[localCallbackIndex_ + 1].eventBase = PrimaryEventBase

SomeRegistered == \E i \in DOMAIN sockets_ : sockets_[i].registered

\* C39: a socket is registered for READ only while accepting_ is set and
\* callbacks_ is not empty; so the accept loop never starts or runs with an
\* empty table, and the backoff timer never fires while accepting_ is false.
C39_RegisteredOnlyWhileAccepting ==
  /\ [](SomeRegistered => (accepting_ /\ callbacks_ # <<>>))
  /\ [][(\E h \in DOMAIN sockets_ : handlerReady(h)) => callbacks_ # <<>>]_vars
  /\ [][AcceptCalled => callbacks_ # <<>>]_vars
  /\ [][backoffTimeoutExpired => accepting_]_vars
  /\ [](backoffTimeout_.scheduled => accepting_)

\* the backoff timer has fired and registered the sockets again
C39_Witness ==
  /\ lastOp = "backoffTimeoutExpired"
  /\ SomeRegistered
  /\ events.backoffEnded = 1

\* C40: between operations, every entry of napiIdToCallback_ is an entry of
\* callbacks_: the same callback, the same EventBase, the same RemoteAcceptor.
C40_NapiEntriesAreTableEntries ==
  wake = NoWake =>
    \A id \in DOMAIN napiIdToCallback_ :
      \E i \in DOMAIN callbacks_ : callbacks_[i] = napiIdToCallback_[id]

====
